---- MODULE Spec2Model ----
(***************************************************************************)
(* The shape/state synchronization core of the whiteboard: the document    *)
(* (shapes + history) of every browsing context, its private undo/redo     *)
(* stacks with the one-shot suppression flag, and the BroadcastChannel      *)
(* protocol between the contexts.                                           *)
(*                                                                          *)
(* Every handler of the component runs to completion on the UI thread and   *)
(* React commits the queued state updaters and runs the effects that copy   *)
(* `shapes`/`history` into shapesRef/historyRef before the next event is    *)
(* handled, so one action is one handler plus that commit, and the refs     *)
(* are the state variables themselves.                                      *)
(***************************************************************************)
EXTENDS Integers, Sequences, FiniteSets, TLC

\* ---------------------------------------------------------------- bounds
\* Number of local operations (calls of a user-triggered handler) in a run
\* of two contexts.
MaxOps == 3
\* Number of local operations in a run of one context on its own.
MaxSoloOps == 6
\* Number of events (local operations and messages handed over by the
\* channel) in a run of one context and its channel.
MaxRecvOps == 4
\* Number of local operations in a run of three contexts.
MaxTrioOps == 2
\* Number of events in a run that fills the activity log.
MaxLogOps == 252
\* messages with a table one context handles
MaxTableOps == 1
\* operations of the context that starts with or without the primitive
MaxBareOps == 3
\* operations of the writer of the variant with removable log entries
MaxLinkedOps == 4
\* operations of the context that draws strokes
MaxStrokeOps == 4
\* operations of the context that edits tables
MaxCellOps == 3
\* events of the context that moves and resizes shapes
MaxGestureOps == 4

\* The local operations of the one writing context.
MaxWriterOps == 3

\* The local operations of a context that joins its peer, and of the peer.
MaxJoinOps == 3

\* The local operations of a context that updates and a peer that removes.
MaxUpdateOps == 3
\* rows of a grid that arrives from outside
MaxGridLen == 3
\* Number of local operations in a run of the long chain of edits.
ChainOps == 62
\* Number of performUndo calls the long chain may interleave with its edits.
ChainDetours == 1

\* ------------------------------------------------------ program constants
\* undoStackRef.current.slice(-50)
UNDO_CAP == 50
\* [entry, ...prev].slice(0, 250)
HISTORY_CAP == 250
\* const DEFAULT_FONT_SIZE = 18
DEFAULT_FONT_SIZE == 18
\* cellWidth: 80 of a new table
DEFAULT_CELL_WIDTH == 80
\* clamp(Math.round(current.rows), 1, 12)
MAX_TABLE_DIM == 12
\* const MIN_TEXT_SIZE = 10
MIN_TEXT_SIZE == 10
\* const MAX_TEXT_SIZE = 120
MAX_TEXT_SIZE == 120
\* const MIN_TABLE_CELL = 20
MIN_TABLE_CELL == 20
\* const MIN_PATH_DIMENSION = 4
MIN_PATH_DIMENSION == 4
\* const DEFAULT_BOARD_WIDTH = 2400: the width of the board's rectangle
BOARD_WIDTH == 2400

\* The browsing contexts (tabs); the name is also the context's clientId
\* and its userName.
Clients == {"c1", "c2", "c3"}

\* The context that runs on its own, and its peer.
SoloClient == "c1"
PeerClient == "c2"

\* The context that opened its channel last.
LastClient == "c3"

\* The two contexts of a run in which the third stays idle.
Pair == {SoloClient, PeerClient}

\* Point sequences a pen gesture may hand to commitPath (a point is stood
\* for by a number); the first is too short to be a stroke.
PathInputs == {<<1>>, <<1, 2, 3>>}

\* Contents the text editor may hand over (non-empty after trimming).
TextInputs == {"t1"}

\* What localStorage may hold when the contexts are opened: nothing, or the
\* document an earlier session left (one text shape and its history entry).
StoredShape ==
  [id |-> <<"stored", 1>>, type |-> "text", text |-> "t0", createdBy |-> "stored",
   x |-> 0, fontSize |-> DEFAULT_FONT_SIZE]

StoredDocs ==
  { [shapes |-> <<>>, history |-> <<>>],
    [shapes |-> <<StoredShape>>,
     history |-> <<[id |-> <<"stored", 2>>, user |-> "stored",
                    description |-> [user |-> "stored", text |-> "added text",
                                     arg |-> "t0"]]>>] }

VARIABLES
  shapes,      \* shapes[c]: the shape list of context c (state and shapesRef)
  history,     \* history[c]: the activity log of c, most recent first
  undoStack,   \* undoStackRef.current of c: sequence of snapshots, top last
  redoStack,   \* redoStackRef.current of c
  isUndoRedo,  \* isUndoRedoRef.current of c: the one-shot suppression flag
  nid,         \* nid[c]: number of randomId() values c has drawn
  chan,        \* chan[s][r]: messages posted by s, not yet handled by r
  open,        \* the contexts that have opened the channel (channelRef)
  hasBroadcastChannel, \* the environment defines BroadcastChannel
  life,        \* life[c]: "new" before the component of c is mounted,
               \* "running" once its effects have run, "failed" when an
               \* effect threw and React took the component down
  draggingShape, \* draggingShapeRef.current of c: the move gesture in progress
  resizingShape, \* resizingShapeRef.current of c: the resize gesture in progress
  ops,         \* number of events counted against the bound of the run
  detours,     \* number of performUndo calls of the long chain so far
  ev,          \* the event handled by the last step
  obs,         \* obs[c]: observer of c's recent events (not program state)
  grab         \* grab[c]: which gestures in progress of c began with a
               \* pointer-down that pushed an undo frame (not program state)

vars == <<shapes, history, undoStack, redoStack, isUndoRedo, nid, chan, open,
          hasBroadcastChannel, life, draggingShape, resizingShape, ops, detours, ev, obs, grab>>

\* ---------------------------------------------------------------- helpers
\* Array.prototype.slice(-n): the last n elements.
SliceLast(s, n) == IF Len(s) <= n THEN s ELSE SubSeq(s, Len(s) - n + 1, Len(s))

\* Array.prototype.slice(0, n): the first n elements.
SliceFirst(s, n) == IF Len(s) <= n THEN s ELSE SubSeq(s, 1, n)

\* Array.prototype.pop(): the array without its last element.
Pop(s) == SubSeq(s, 1, Len(s) - 1)

\* The last element of a non-empty array.
Top(s) == s[Len(s)]

Min(a, b) == IF a <= b THEN a ELSE b

Max(a, b) == IF a >= b THEN a ELSE b

\* clamp = (value, min, max) => Math.min(Math.max(value, min), max)
clamp(value, min, max) == Min(Max(value, min), max)

\* A ref that holds null.
NoRef == [none |-> TRUE]

IsSet(ref) == "none" \notin DOMAIN ref

\* The state a handler of context c reads and writes, as one record; `out`
\* collects the messages the handler posts.
Ctx(c) ==
  [clientId |-> c, userName |-> c,
   shapes |-> shapes[c], history |-> history[c],
   undoStack |-> undoStack[c], redoStack |-> redoStack[c],
   isUndoRedo |-> isUndoRedo[c], nid |-> nid[c],
   draggingShape |-> draggingShape[c], resizingShape |-> resizingShape[c],
   out |-> <<>>]

\* The document of a context state: what a snapshot holds.
DocOf(s) == [shapes |-> s.shapes, history |-> s.history]

Doc(c) == [shapes |-> shapes[c], history |-> history[c]]

\* randomId(): a value no other call returns; the n-th draw of context c.
randomId(s) == <<s.clientId, s.nid + 1>>

DrawId(s) == [s EXCEPT !.nid = s.nid + 1]

\* ------------------------------------------------------- markup and cells
\* A string of markup is a sequence of characters. String.prototype.trim().
RECURSIVE TrimLeft(_)
TrimLeft(str) ==
  IF Len(str) > 0 /\ Head(str) = " " THEN TrimLeft(Tail(str)) ELSE str

RECURSIVE TrimRight(_)
TrimRight(str) ==
  IF Len(str) > 0 /\ str[Len(str)] = " " THEN TrimRight(Pop(str)) ELSE str

Trim(str) == TrimRight(TrimLeft(str))

\* The characters [a-z] of the strings of this model.
Letters == {"a", "b", "g", "l", "m", "p", "t"}

\* A tag opens at position i: '<' and a letter, or '</' and a letter.
TagOpensAt(str, i) ==
  /\ str[i] = "<"
  /\ \/ i + 1 <= Len(str) /\ str[i + 1] \in Letters
     \/ i + 2 <= Len(str) /\ str[i + 1] = "/" /\ str[i + 2] \in Letters

\* HTML_TAG_REGEX.test(str): /<\/?[a-z][\s\S]*>/i
HasHtmlTag(str) ==
  \E i \in 1..Len(str) :
    /\ TagOpensAt(str, i)
    /\ \E j \in (i + 2)..Len(str) :
         /\ str[j] = ">"
         /\ str[i + 1] = "/" => j > i + 2

\* escapeHtml of one character.
EscapeChar(ch) ==
  CASE ch = "&" -> <<"&", "a", "m", "p", ";">>
    [] ch = "<" -> <<"&", "l", "t", ";">>
    [] ch = ">" -> <<"&", "g", "t", ";">>
    [] OTHER -> <<ch>>

RECURSIVE escapeHtml(_)
escapeHtml(str) ==
  IF Len(str) = 0 THEN <<>> ELSE EscapeChar(Head(str)) \o escapeHtml(Tail(str))

\* normalizeHtmlContent (the strings of this model hold no line break).
normalizeHtmlContent(value) ==
  IF Len(value) = 0 THEN <<>>
  ELSE IF HasHtmlTag(value) THEN value
  ELSE escapeHtml(value)

\* The position of the first '>' at or after position i, or 0.
RECURSIVE CloseAt(_, _)
CloseAt(str, i) ==
  IF i > Len(str) THEN 0 ELSE IF str[i] = ">" THEN i ELSE CloseAt(str, i + 1)

\* The character references the parser decodes, with the character each
\* stands for.
EntityAt(str, i) ==
  IF i + 4 <= Len(str) /\ SubSeq(str, i, i + 4) = <<"&", "a", "m", "p", ";">>
    THEN [len |-> 5, ch |-> "&"]
  ELSE IF i + 3 <= Len(str) /\ SubSeq(str, i, i + 3) = <<"&", "l", "t", ";">>
    THEN [len |-> 4, ch |-> "<"]
  ELSE IF i + 3 <= Len(str) /\ SubSeq(str, i, i + 3) = <<"&", "g", "t", ";">>
    THEN [len |-> 4, ch |-> ">"]
  ELSE [len |-> 1, ch |-> str[i]]

\* The text content of the markup from position i on: tags are dropped (a
\* tag that is never closed drops the rest), character references decoded.
RECURSIVE TextContentFrom(_, _)
TextContentFrom(html, i) ==
  IF i > Len(html) THEN <<>>
  ELSE IF TagOpensAt(html, i)
    THEN IF CloseAt(html, i) = 0 THEN <<>>
         ELSE TextContentFrom(html, CloseAt(html, i) + 1)
  ELSE <<EntityAt(html, i).ch>> \o TextContentFrom(html, i + EntityAt(html, i).len)

\* extractPlainText: tempDiv.innerHTML = html; tempDiv.textContent
extractPlainText(html) == TextContentFrom(html, 1)

sanitizeHtmlValue(value) ==
  LET normalized == normalizeHtmlContent(Trim(value))
      plain == Trim(extractPlainText(normalized))
  IN IF Len(plain) > 0 THEN normalized ELSE <<>>

DEFAULT_CELL_COLOR == "#e2e8f0"

\* The pen colour of a context that never chose one.
DEFAULT_PEN_COLOR == "#22d3ee"

\* A cell of a grid that reaches ensureTableCells is a record; which fields
\* it has says what the JavaScript value is:
\*   [none |-> TRUE]            undefined or null
\*   [str |-> v]                a string v (a legacy cell)
\*   [value |-> v, color |-> k] an object; either field may be missing
\* A table shape without the field cells has no grid.
DefaultCell == [value |-> <<>>, color |-> DEFAULT_CELL_COLOR]

\* The cell ensureTableCells makes of existingCell.
EnsureCell(existingCell) ==
  IF "none" \in DOMAIN existingCell THEN DefaultCell
  ELSE IF "str" \in DOMAIN existingCell
    THEN IF existingCell.str = <<>> THEN DefaultCell
         ELSE [value |-> existingCell.str, color |-> DEFAULT_CELL_COLOR]
  ELSE [value |-> IF "value" \in DOMAIN existingCell
                    THEN existingCell.value ELSE <<>>,
        color |-> IF "color" \in DOMAIN existingCell
                    THEN existingCell.color ELSE DEFAULT_CELL_COLOR]

\* ensureTableCells that keeps the rows of the grid as long as they are.
ensureTableCells_keepsRowLength(shape) ==
  LET legacyCells == IF "cells" \in DOMAIN shape THEN shape.cells ELSE <<>>
      normalizedCells ==
        [rowIndex \in 1..shape.rows |->
           LET existingRow == IF rowIndex <= Len(legacyCells)
                                THEN legacyCells[rowIndex] ELSE <<>>
           IN [colIndex \in 1..Len(existingRow) |->
                 EnsureCell(existingRow[colIndex])]]
  IN [f \in DOMAIN shape \cup {"cells"} |->
        IF f = "cells" THEN normalizedCells ELSE shape[f]]

ensureTableCells(shape) ==
  LET legacyCells == IF "cells" \in DOMAIN shape THEN shape.cells ELSE <<>>
      normalizedCells ==
        [rowIndex \in 1..shape.rows |->
           LET existingRow == IF rowIndex <= Len(legacyCells)
                                THEN legacyCells[rowIndex] ELSE <<>>
           IN [colIndex \in 1..shape.cols |->
                 IF colIndex <= Len(existingRow)
                   THEN EnsureCell(existingRow[colIndex])
                   ELSE DefaultCell]]
  IN [f \in DOMAIN shape \cup {"cells"} |->
        IF f = "cells" THEN normalizedCells ELSE shape[f]]

\* normalizeShape: a table gets its full grid; a text shape without a
\* fontSize gets the default one; a stroke is returned as it is.
normalizeShape(shape) ==
  IF shape.type = "table" THEN ensureTableCells(shape)
  ELSE IF shape.type = "text"
    THEN [f \in DOMAIN shape \cup {"fontSize"} |->
            IF f = "fontSize" /\ "fontSize" \notin DOMAIN shape
              THEN DEFAULT_FONT_SIZE ELSE shape[f]]
  ELSE shape

normalizeShapes(list) == [i \in 1..Len(list) |-> normalizeShape(list[i])]

\* channelRef.current?.postMessage(message)
broadcast(s, message) == [s EXCEPT !.out = Append(s.out, message)]

\* A history description `${userName} <text>`; arg is what the description
\* quotes: the number of points or the text ("" when it quotes nothing).
Description(userName, text, arg) == [user |-> userName, text |-> text, arg |-> arg]

UNDID == "undid last action"
REDID == "redid last action"

\* ------------------------------------------------------ undo/redo manager
\* saveStateForUndo with a flag that is never cleared.
saveStateForUndo_keepsFlag(s) ==
  IF s.isUndoRedo
    THEN s
    ELSE [s EXCEPT
            !.undoStack = SliceLast(Append(s.undoStack, DocOf(s)), UNDO_CAP),
            !.redoStack = <<>>]

\* saveStateForUndo that leaves the redo stack as it is.
saveStateForUndo_keepsRedo(s) ==
  IF s.isUndoRedo
    THEN [s EXCEPT !.isUndoRedo = FALSE]
    ELSE [s EXCEPT
            !.undoStack = SliceLast(Append(s.undoStack, DocOf(s)), UNDO_CAP)]

\* saveStateForUndo without the slice(-50).
saveStateForUndo_noCap(s) ==
  IF s.isUndoRedo
    THEN [s EXCEPT !.isUndoRedo = FALSE]
    ELSE [s EXCEPT !.undoStack = Append(s.undoStack, DocOf(s)),
                   !.redoStack = <<>>]

saveStateForUndo(s) ==
  IF s.isUndoRedo
    THEN [s EXCEPT !.isUndoRedo = FALSE]
    ELSE [s EXCEPT
            !.undoStack = SliceLast(Append(s.undoStack, DocOf(s)), UNDO_CAP),
            !.redoStack = <<>>]

\* The entry pushHistory builds (its timestamp, Date.now(), is left out).
HistoryEntry(s, description) ==
  [id |-> randomId(s), user |-> s.userName, description |-> description]

\* pushHistory: prepend the entry and keep the first 250; the entry it
\* returns is HistoryEntry(s, description).
pushHistory(s, description) ==
  [DrawId(s) EXCEPT
     !.history = SliceFirst(<<HistoryEntry(s, description)>> \o s.history,
                            HISTORY_CAP)]

UndoRedoMessage(s, doc) ==
  [kind |-> "undo-redo", shapes |-> doc.shapes, history |-> doc.history,
   senderId |-> s.clientId]

\* performUndo past its guard: pop a frame, push the live document on the
\* redo stack, set the flag, make the frame the live document, log, post.
UndoStep(s) ==
  LET previousState == Top(s.undoStack)
      s1 == [s EXCEPT !.undoStack = Pop(s.undoStack),
                      !.redoStack = Append(s.redoStack, DocOf(s)),
                      !.isUndoRedo = TRUE,
                      !.shapes = previousState.shapes,
                      !.history = previousState.history]
      s2 == pushHistory(s1, Description(s.userName, UNDID, ""))
  IN broadcast(s2, UndoRedoMessage(s, previousState))

\* performUndo that keeps the shapes of other contexts it holds.
performUndo_keepsRemote(s) ==
  IF Len(s.undoStack) = 0 THEN s
  ELSE LET Remote(shape) == shape.id[1] # s.clientId
       IN [UndoStep(s) EXCEPT
             !.shapes = Top(s.undoStack).shapes \o SelectSeq(s.shapes, Remote)]

\* performUndo whose guard comes after the log entry.
performUndo_logsOnEmpty(s) ==
  IF Len(s.undoStack) = 0
    THEN pushHistory(s, Description(s.userName, UNDID, ""))
    ELSE UndoStep(s)

performUndo(s) == IF Len(s.undoStack) = 0 THEN s ELSE UndoStep(s)

\* performRedo past its guard.
RedoStep(s) ==
  LET nextState == Top(s.redoStack)
      s1 == [s EXCEPT !.redoStack = Pop(s.redoStack),
                      !.undoStack = Append(s.undoStack, DocOf(s)),
                      !.isUndoRedo = TRUE,
                      !.shapes = nextState.shapes,
                      !.history = nextState.history]
      s2 == pushHistory(s1, Description(s.userName, REDID, ""))
  IN broadcast(s2, UndoRedoMessage(s, nextState))

performRedo(s) == IF Len(s.redoStack) = 0 THEN s ELSE RedoStep(s)

\* --------------------------------------------------------- document store
\* prev.map(shape => shape.id === updated.id ? updated : shape)
ReplaceById(list, updated) ==
  [i \in 1..Len(list) |-> IF list[i].id = updated.id THEN updated ELSE list[i]]

\* prev.filter(shape => shape.id !== shapeId)
RemoveById(list, shapeId) ==
  LET Keep(shape) == shape.id # shapeId IN SelectSeq(list, Keep)

commitShape(s, shape, description) ==
  LET s1 == saveStateForUndo(s)
      historyEntry == HistoryEntry(s1, description)
      s2 == pushHistory(s1, description)
      normalizedShape == normalizeShape(shape)
      s3 == [s2 EXCEPT !.shapes = Append(s2.shapes, normalizedShape)]
  IN broadcast(s3, [kind |-> "add-shape", shape |-> normalizedShape,
                    history |-> historyEntry, senderId |-> s.clientId])

applyShapeUpdate(s, updatedShape, description, skipUndoSnapshot) ==
  LET s1 == IF skipUndoSnapshot THEN s ELSE saveStateForUndo(s)
      normalizedShape == normalizeShape(updatedShape)
      historyEntry == HistoryEntry(s1, description)
      s2 == pushHistory(s1, description)
      s3 == [s2 EXCEPT !.shapes = ReplaceById(s2.shapes, normalizedShape)]
  IN broadcast(s3, [kind |-> "update-shape", shape |-> normalizedShape,
                    history |-> historyEntry, senderId |-> s.clientId])

\* commitPath past its guard.
PathStep(s, points) ==
  LET shape == [id |-> randomId(s), type |-> "path", points |-> points,
                createdBy |-> s.userName]
  IN commitShape(DrawId(s), shape,
                 Description(s.userName, "drew a stroke", ToString(Len(points))))

\* commitPath that loses the point of the pointer-up event.
commitPath_dropsPoint(s, points) ==
  IF Len(points) < 2 THEN s ELSE PathStep(s, Pop(points))

\* commitPath that takes a single point for a stroke.
commitPath_acceptsPoint(s, points) ==
  IF Len(points) < 1 THEN s ELSE PathStep(s, points)

commitPath(s, points) == IF Len(points) < 2 THEN s ELSE PathStep(s, points)

\* finalizeTextEditor(true) in mode 'create': the id was drawn when the
\* editor was opened.
addText(s, text) ==
  LET shape == [id |-> randomId(s), type |-> "text", text |-> text,
                createdBy |-> s.userName, x |-> 0,
                fontSize |-> DEFAULT_FONT_SIZE]
  IN commitShape(DrawId(s), shape, Description(s.userName, "added text", text))

\* finalizeTextEditor(true) in mode 'edit' for the text shape shapeId.
editText(s, shapeId, text) ==
  LET IsTarget(shape) == shape.id = shapeId /\ shape.type = "text"
      found == SelectSeq(s.shapes, IsTarget)
  IN IF Len(found) = 0 THEN s
     ELSE applyShapeUpdate(s, [found[1] EXCEPT !.text = text],
                           Description(s.userName, "edited text", text), FALSE)

deleteShape(s, shapeId, description) ==
  LET s1 == saveStateForUndo(s)
      s2 == [s1 EXCEPT !.shapes = RemoveById(s1.shapes, shapeId)]
      historyEntry == HistoryEntry(s2, description)
      s3 == pushHistory(s2, description)
  IN broadcast(s3, [kind |-> "delete-shape", shapeId |-> shapeId,
                    history |-> historyEntry, senderId |-> s.clientId])

\* finalizeTableEditor(true): the id was drawn when the editor was opened.
createTable(s, rows, cols) ==
  LET r == clamp(rows, 1, MAX_TABLE_DIM)
      k == clamp(cols, 1, MAX_TABLE_DIM)
      shape == [id |-> randomId(s), type |-> "table", createdBy |-> s.userName,
                x |-> 0, rows |-> r, cols |-> k,
                cellWidth |-> DEFAULT_CELL_WIDTH,
                cells |-> [i \in 1..r |-> [j \in 1..k |-> DefaultCell]]]
  IN commitShape(DrawId(s), shape,
                 Description(s.userName, "created a table",
                             ToString(r) \o "x" \o ToString(k)))

\* updateTableCell past its two guards: the cell (row, col) of the full
\* grid becomes {sanitizedValue, nextColor}.
CellStep(s, normalizedTable, row, col, sanitizedValue, nextColor) ==
  LET updatedCells ==
        [rowIndex \in 1..Len(normalizedTable.cells) |->
           IF rowIndex = row + 1
             THEN [colIndex \in 1..Len(normalizedTable.cells[rowIndex]) |->
                     IF colIndex = col + 1
                       THEN [value |-> sanitizedValue, color |-> nextColor]
                       ELSE normalizedTable.cells[rowIndex][colIndex]]
             ELSE normalizedTable.cells[rowIndex]]
      updatedShape == [normalizedTable EXCEPT !.cells = updatedCells]
  IN applyShapeUpdate(s, updatedShape,
                      Description(s.userName, "updated cell",
                                  "R" \o ToString(row + 1) \o "C" \o ToString(col + 1)),
                      FALSE)

\* updateTableCell; row and col count from 0; options is a record that may
\* have the field color.
updateTableCell(s, tableShape, row, col, value, options) ==
  LET normalizedTable == ensureTableCells(tableShape)
      sanitizedValue == sanitizeHtmlValue(value)
      hasRow == row + 1 <= Len(normalizedTable.cells)
      targetRow == normalizedTable.cells[row + 1]
      hasCell == col + 1 <= Len(targetRow)
      existingCell == targetRow[col + 1]
      nextColor == IF "color" \in DOMAIN options THEN options.color
                   ELSE IF hasCell THEN existingCell.color
                   ELSE DEFAULT_CELL_COLOR
  IN IF ~hasRow THEN s
     ELSE IF /\ hasCell
             /\ existingCell.value = sanitizedValue
             /\ existingCell.color = nextColor
       THEN s
     ELSE CellStep(s, normalizedTable, row, col, sanitizedValue, nextColor)

\* finalizeCellEditor(true) of the editor opened on cell (row, col) of the
\* table tableId, holding value, while the pen colour is color.
finalizeCellEditor(s, tableId, row, col, value, color) ==
  LET sanitized == sanitizeHtmlValue(value)
      IsTable(shape) == shape.id = tableId /\ shape.type = "table"
      found == SelectSeq(s.shapes, IsTable)
  IN IF Len(found) = 0 THEN s
     ELSE updateTableCell(s, found[1], row, col, sanitized, [color |-> color])

\* The gestures keep the horizontal coordinate of the pointer and of the
\* shapes; the code treats the vertical one alike. A point of a stroke is
\* its x.
RECURSIVE MinOf(_)
MinOf(points) ==
  IF Len(points) = 1 THEN points[1] ELSE Min(points[1], MinOf(Tail(points)))

RECURSIVE MaxOf(_)
MaxOf(points) ==
  IF Len(points) = 1 THEN points[1] ELSE Max(points[1], MaxOf(Tail(points)))

\* getShapeBounds: minX and width of a table and of a stroke, minX of a text
\* (whose width the gestures of texts and tables do not read).
getShapeBounds(shape) ==
  IF shape.type = "table"
    THEN [minX |-> shape.x, width |-> shape.cols * shape.cellWidth]
  ELSE IF shape.type = "path"
    THEN [minX |-> MinOf(shape.points),
          width |-> Max(MaxOf(shape.points) - MinOf(shape.points),
                        MIN_PATH_DIMENSION)]
  ELSE [minX |-> shape.x, width |-> 0]

\* The first shape of the list with the given id, as Array.prototype.find;
\* NoRef when there is none.
FindShape(list, id) ==
  LET WithId(shape) == shape.id = id
      found == SelectSeq(list, WithId)
  IN IF Len(found) = 0 THEN NoRef ELSE found[1]

\* handleShapePointerDown with the move tool on `shape`, the pointer at x.
handleShapePointerDown(s, shape, x) ==
  IF shape.type \notin {"text", "table", "path"} THEN s
  ELSE IF IsSet(s.draggingShape) THEN s
  ELSE LET s1 == saveStateForUndo(s)
           bounds == getShapeBounds(shape)
           anchor == IF shape.type = "text" THEN shape.x ELSE bounds.minX
       IN [s1 EXCEPT !.draggingShape =
             [id |-> shape.id, type |-> shape.type, offset |-> x - anchor,
              size |-> bounds.width]]

\* handleResizePointerDown with the resize tool on a handle of `shape`.
handleResizePointerDown(s, shape) ==
  IF IsSet(s.resizingShape) THEN s
  ELSE LET s1 == saveStateForUndo(s)
       IN [s1 EXCEPT !.resizingShape =
             [id |-> shape.id, originalShape |-> shape,
              startBounds |-> getShapeBounds(shape)]]

\* handlePointerMove during a resize; scale is nextWidth / baseWidth of the
\* pointer's position.
ResizeMove(s, scale) ==
  LET resizeState == s.resizingShape
      original == resizeState.originalShape
      minX == resizeState.startBounds.minX
      Scaled(shape) ==
        IF shape.id # resizeState.id THEN shape
        ELSE IF original.type = "table"
          THEN [shape EXCEPT !.cellWidth =
                  Max(original.cellWidth * scale, MIN_TABLE_CELL)]
        ELSE IF original.type = "text"
          THEN [shape EXCEPT !.fontSize =
                  clamp(original.fontSize * scale, MIN_TEXT_SIZE, MAX_TEXT_SIZE)]
        ELSE IF original.type = "path"
          THEN [shape EXCEPT !.points =
                  [i \in 1..Len(original.points) |->
                     clamp(minX + (original.points[i] - minX) * scale,
                           0, BOARD_WIDTH)]]
        ELSE shape
  IN [s EXCEPT !.shapes = [i \in 1..Len(s.shapes) |-> Scaled(s.shapes[i])]]

\* handlePointerMove during a move, the pointer at x.
DragMove(s, x) ==
  LET drag == s.draggingShape
      nextX == x - drag.offset
      Moved(shape) ==
        IF shape.id # drag.id THEN shape
        ELSE IF shape.type \in {"table", "text"} THEN [shape EXCEPT !.x = nextX]
        ELSE IF shape.type = "path"
          THEN LET targetMinX == clamp(nextX, 0, Max(BOARD_WIDTH - drag.size, 0))
                   deltaX == targetMinX - getShapeBounds(shape).minX
               IN IF deltaX = 0 THEN shape
                  ELSE [shape EXCEPT !.points =
                          [i \in 1..Len(shape.points) |->
                             clamp(shape.points[i] + deltaX, 0, BOARD_WIDTH)]]
        ELSE shape
  IN [s EXCEPT !.shapes = [i \in 1..Len(s.shapes) |-> Moved(s.shapes[i])]]

\* handlePointerMove, no shape being drawn: the resize in progress, else the
\* move in progress, else nothing the document sees.
handlePointerMove(s, x, scale) ==
  IF IsSet(s.resizingShape) THEN ResizeMove(s, scale)
  ELSE IF IsSet(s.draggingShape) THEN DragMove(s, x)
  ELSE s

GestureDescription(s, verb, target) ==
  IF target.type = "text"
    THEN Description(s.userName, verb \o " text", target.text)
  ELSE IF target.type = "table"
    THEN Description(s.userName, verb \o " table",
                     ToString(target.rows) \o "x" \o ToString(target.cols))
  ELSE Description(s.userName, verb \o " a stroke", "")

finalizeShapeDrag(s) ==
  IF ~IsSet(s.draggingShape) THEN s
  ELSE LET target == FindShape(s.shapes, s.draggingShape.id)
           s1 == [s EXCEPT !.draggingShape = NoRef]
       IN IF ~IsSet(target) THEN s1
          ELSE applyShapeUpdate(s1, target,
                                GestureDescription(s, "moved", target), TRUE)

finalizeShapeResize(s) ==
  IF ~IsSet(s.resizingShape) THEN s
  ELSE LET target == FindShape(s.shapes, s.resizingShape.id)
           s1 == [s EXCEPT !.resizingShape = NoRef]
       IN IF ~IsSet(target) THEN s1
          ELSE applyShapeUpdate(s1, target,
                                GestureDescription(s, "resized", target), TRUE)

\* handlePointerUp, no shape and no stroke being drawn.
handlePointerUp(s) ==
  IF IsSet(s.resizingShape) THEN finalizeShapeResize(s)
  ELSE IF IsSet(s.draggingShape) THEN finalizeShapeDrag(s)
  ELSE s

\* handlePointerDown with the eraser on the shape targetShape.
eraseShape(s, targetShape) ==
  deleteShape(s, targetShape.id,
              IF targetShape.type = "text"
                THEN Description(s.userName, "erased text", targetShape.text)
                ELSE IF targetShape.type = "table"
                  THEN Description(s.userName, "erased a table",
                                   ToString(targetShape.rows) \o "x"
                                     \o ToString(targetShape.cols))
                ELSE Description(s.userName, "erased a stroke", ""))

\* clearBoard past its guard.
ClearStep(s) ==
  LET s1 == saveStateForUndo(s)
      description == Description(s.userName, "cleared the board", "")
      historyEntry == HistoryEntry(s1, description)
      s2 == pushHistory(s1, description)
      s3 == [s2 EXCEPT !.shapes = <<>>]
  IN broadcast(s3, [kind |-> "clear-board", history |-> historyEntry,
                    senderId |-> s.clientId])

\* clearBoard without its guard.
clearBoard_noGuard(s) == ClearStep(s)

clearBoard(s) == IF Len(s.shapes) = 0 THEN s ELSE ClearStep(s)

\* ------------------------------------------------------ peer sync channel
\* The switch of handleMessage over the kind of the payload.
ApplyMessage(s, payload) ==
       CASE payload.kind = "add-shape" ->
              [s EXCEPT !.shapes = Append(s.shapes, normalizeShape(payload.shape)),
                        !.history = <<payload.history>> \o s.history]
         [] payload.kind = "clear-board" ->
              [s EXCEPT !.shapes = <<>>,
                        !.history = <<payload.history>> \o s.history]
         [] payload.kind = "update-shape" ->
              [s EXCEPT !.shapes = ReplaceById(s.shapes, normalizeShape(payload.shape)),
                        !.history = <<payload.history>> \o s.history]
         [] payload.kind = "delete-shape" ->
              [s EXCEPT !.shapes = RemoveById(s.shapes, payload.shapeId),
                        !.history = <<payload.history>> \o s.history]
         [] payload.kind = "sync-request" ->
              IF Len(s.shapes) = 0 /\ Len(s.history) = 0 THEN s
              ELSE broadcast(s, [kind |-> "sync-state", shapes |-> s.shapes,
                                 history |-> s.history, senderId |-> s.clientId])
         [] payload.kind = "sync-state" ->
              [s EXCEPT !.shapes = normalizeShapes(payload.shapes),
                        !.history = payload.history]
         [] payload.kind = "undo-redo" ->
              [s EXCEPT !.isUndoRedo = TRUE,
                        !.shapes = normalizeShapes(payload.shapes),
                        !.history = payload.history]
         [] OTHER -> s

\* handleMessage without the test of the senderId.
handleMessage_noSelfCheck(s, payload) == ApplyMessage(s, payload)

\* handleMessage whose switch has no case for delete-shape.
handleMessage_dropsDelete(s, payload) ==
  IF payload.senderId = s.clientId \/ payload.kind = "delete-shape" THEN s
  ELSE ApplyMessage(s, payload)

\* handleMessage that keeps a document of its own when a sync-state arrives.
handleMessage_keepsOwnDocument(s, payload) ==
  IF payload.senderId = s.clientId THEN s
  ELSE IF payload.kind = "sync-state" /\ Len(s.shapes) > 0 THEN s
  ELSE ApplyMessage(s, payload)

\* handleMessage that answers a sync-request only when it holds shapes.
handleMessage_repliesOnShapes(s, payload) ==
  IF payload.senderId = s.clientId THEN s
  ELSE IF payload.kind = "sync-request" /\ Len(s.shapes) = 0 THEN s
  ELSE ApplyMessage(s, payload)

\* handleMessage that puts a peer's new shape below the shapes it holds.
handleMessage_prependsShape(s, payload) ==
  IF payload.senderId = s.clientId THEN s
  ELSE IF payload.kind = "add-shape"
    THEN [s EXCEPT !.shapes = <<normalizeShape(payload.shape)>> \o s.shapes,
                   !.history = <<payload.history>> \o s.history]
  ELSE ApplyMessage(s, payload)

\* handleMessage that asks for the document again when a sync-state arrives.
handleMessage_asksAgain(s, payload) ==
  IF payload.senderId = s.clientId THEN s
  ELSE IF payload.kind = "sync-state"
    THEN broadcast(ApplyMessage(s, payload),
                   [kind |-> "sync-request", senderId |-> s.clientId])
  ELSE ApplyMessage(s, payload)

\* handleMessage that adds the shape of an update-shape it does not hold.
handleMessage_upserts(s, payload) ==
  IF payload.senderId = s.clientId THEN s
  ELSE IF payload.kind = "update-shape"
          /\ \A i \in 1..Len(s.shapes) : s.shapes[i].id # payload.shape.id
    THEN [s EXCEPT !.shapes = Append(s.shapes, normalizeShape(payload.shape)),
                   !.history = <<payload.history>> \o s.history]
  ELSE ApplyMessage(s, payload)

\* handleMessage that drops the redo stack when a peer changed the document.
handleMessage_clearsRedo(s, payload) ==
  IF payload.senderId = s.clientId THEN s
  ELSE IF payload.kind = "sync-request" THEN ApplyMessage(s, payload)
  ELSE [ApplyMessage(s, payload) EXCEPT !.redoStack = <<>>]

\* handleMessage that sends a peer's change through the local commit path.
handleMessage_snapshots(s, payload) ==
  IF payload.senderId = s.clientId THEN s
  ELSE ApplyMessage(saveStateForUndo(s), payload)

handleMessage(s, payload) ==
  IF payload.senderId = s.clientId THEN s ELSE ApplyMessage(s, payload)

\* ------------------------------------- the variant with removable log entries
\* (src/src/App.tsx, second component: no undo, a history entry may link to
\* the shape it logged; what the main component names alike is prefixed Tsx)
\* pushHistory(description, undefined, shapeId): the entry it builds.
TsxLinkedEntry(s, description, shapeId) ==
  [id |-> randomId(s), user |-> s.userName, description |-> description,
   shapeId |-> shapeId]

TsxCommitShape(s, shape, description) ==
  LET historyEntry == TsxLinkedEntry(s, description, shape.id)
      s1 == [DrawId(s) EXCEPT
               !.history = SliceFirst(<<historyEntry>> \o s.history, HISTORY_CAP)]
      s2 == [s1 EXCEPT !.shapes = Append(s1.shapes, shape)]
  IN broadcast(s2, [kind |-> "add-shape", shape |-> shape,
                    history |-> historyEntry, senderId |-> s.clientId])

TsxCommitPath(s, points) ==
  IF Len(points) < 2 THEN s
  ELSE TsxCommitShape(DrawId(s),
                      [id |-> randomId(s), type |-> "path", points |-> points,
                       createdBy |-> s.userName],
                      Description(s.userName, "drew a stroke",
                                  ToString(Len(points))))

\* clearBoard: pushHistory(description) makes an entry without a shapeId.
TsxClearBoard(s) ==
  IF Len(s.shapes) = 0 THEN s
  ELSE LET description == Description(s.userName, "cleared the board", "")
           historyEntry == HistoryEntry(s, description)
           s1 == pushHistory(s, description)
           s2 == [s1 EXCEPT !.shapes = <<>>]
       IN broadcast(s2, [kind |-> "clear-board", history |-> historyEntry,
                         senderId |-> s.clientId])

\* prev.filter((item) => item.id !== id), of entries and of shapes.
WithoutId(list, id) ==
  LET Other(item) == item.id # id IN SelectSeq(list, Other)

\* The remove-history message; shapeId is left out where it is undefined.
TsxRemoveMessage(s, historyId, historyItem) ==
  IF IsSet(historyItem) /\ "shapeId" \in DOMAIN historyItem
    THEN [kind |-> "remove-history", historyId |-> historyId,
          shapeId |-> historyItem.shapeId, senderId |-> s.clientId]
    ELSE [kind |-> "remove-history", historyId |-> historyId,
          senderId |-> s.clientId]

TsxRemoveHistoryItem(s, historyId) ==
  LET historyItem == FindShape(s.history, historyId)
      s1 == [s EXCEPT !.history = WithoutId(s.history, historyId)]
      s2 == IF IsSet(historyItem) /\ "shapeId" \in DOMAIN historyItem
              THEN [s1 EXCEPT !.shapes = WithoutId(s1.shapes, historyItem.shapeId)]
              ELSE s1
  IN broadcast(s2, TsxRemoveMessage(s, historyId, historyItem))

TsxApplyMessage(s, payload) ==
       CASE payload.kind = "add-shape" ->
              [s EXCEPT !.shapes = Append(s.shapes, payload.shape),
                        !.history = <<payload.history>> \o s.history]
         [] payload.kind = "clear-board" ->
              [s EXCEPT !.shapes = <<>>,
                        !.history = <<payload.history>> \o s.history]
         [] payload.kind = "sync-request" ->
              IF Len(s.shapes) = 0 /\ Len(s.history) = 0 THEN s
              ELSE broadcast(s, [kind |-> "sync-state", shapes |-> s.shapes,
                                 history |-> s.history, senderId |-> s.clientId])
         [] payload.kind = "sync-state" ->
              [s EXCEPT !.shapes = payload.shapes, !.history = payload.history]
         [] payload.kind = "remove-history" ->
              LET s1 == [s EXCEPT !.history = WithoutId(s.history, payload.historyId)]
              IN IF "shapeId" \in DOMAIN payload
                   THEN [s1 EXCEPT !.shapes = WithoutId(s1.shapes, payload.shapeId)]
                   ELSE s1
         [] OTHER -> s

\* handleMessage whose remove-history case leaves the shapes alone.
TsxHandleMessage_keepsShape(s, payload) ==
  IF payload.senderId = s.clientId THEN s
  ELSE IF payload.kind = "remove-history"
    THEN [s EXCEPT !.history = WithoutId(s.history, payload.historyId)]
  ELSE TsxApplyMessage(s, payload)

TsxHandleMessage(s, payload) ==
  IF payload.senderId = s.clientId THEN s ELSE TsxApplyMessage(s, payload)

\* ---------------------------------------------------------------- observer
\* What the observer of a context remembers of its recent events:
\*   pre     the documents before each local mutation of the current run of
\*           consecutive local mutations (oldest first)
\*   post    the shape list right after the last mutation of that run
\*   undos   calls of performUndo that followed the run
\*   redos   calls of performRedo that followed those
\*   cap     number of the latest consecutive local mutations whose call of
\*           saveStateForUndo pushed a frame
\*   supp    1: a remote undo-redo was applied and saveStateForUndo was not
\*           called since; 2: it was called once since; 3: it was called
\*           twice since, with no undo, redo or undo-redo message after the
\*           first call; 0: otherwise
\*   op      the operation of the latest event of the context
\*   prev    the kind of the latest event of the context
\*   prev2   the kind of the event before that
\*   scen    progress of the stroke scenario (commitPath on a fresh context,
\*           then performUndo, then performRedo)
\*   replied the context has answered a sync-request with a sync-state
\*   sync    n: how many of the latest events of the context were sync-state
\*           messages (2 stands for two or more); doc: the document the
\*           latest of them replaced
NoSync == [n |-> 0, doc |-> [shapes |-> <<>>, history |-> <<>>]]

ObsInit ==
  [pre |-> <<>>, post |-> <<>>, undos |-> 0, redos |-> 0, cap |-> 0,
   supp |-> 0, op |-> "none", prev |-> "none", prev2 |-> "none", scen |-> 0,
   replied |-> FALSE, sync |-> NoSync]

Fresh(c) ==
  /\ shapes[c] = <<>> /\ history[c] = <<>>
  /\ undoStack[c] = <<>> /\ redoStack[c] = <<>> /\ ~isUndoRedo[c]

\* A local operation that changed the document and called saveStateForUndo.
ObsMutation(c, s, op) ==
  LET o == obs[c] IN
  [pre   |-> IF o.undos = 0 /\ o.redos = 0 THEN Append(o.pre, Doc(c)) ELSE <<Doc(c)>>,
   post  |-> s.shapes,
   undos |-> 0,
   redos |-> 0,
   cap   |-> IF isUndoRedo[c] THEN 0 ELSE o.cap + 1,
   supp  |-> IF o.supp = 1 THEN 2 ELSE IF o.supp = 2 THEN 3 ELSE 0,
   op    |-> op,
   prev  |-> "mutation",
   prev2 |-> o.prev,
   scen  |-> IF op = "commitPath" /\ Fresh(c) THEN 1 ELSE 0,
   replied |-> o.replied,
   sync |-> NoSync]

\* A local call that returned at its guard (too short a stroke, an empty
\* board to clear, a text shape that is gone).
ObsNoop(c, op) ==
  [obs[c] EXCEPT !.pre = <<>>, !.post = <<>>, !.undos = 0, !.redos = 0,
                 !.cap = 0, !.op = op, !.prev = "noop", !.prev2 = obs[c].prev,
                 !.scen = 0, !.sync = NoSync]

ObsUndo(c) ==
  LET o == obs[c] IN
  [pre   |-> IF o.redos = 0 THEN o.pre ELSE <<>>,
   post  |-> IF o.redos = 0 THEN o.post ELSE <<>>,
   undos |-> IF o.redos = 0 THEN o.undos + 1 ELSE 0,
   redos |-> 0,
   cap   |-> 0,
   supp  |-> IF o.supp = 1 THEN 1 ELSE 0,
   op    |-> "performUndo",
   prev  |-> "undo",
   prev2 |-> o.prev,
   scen  |-> IF o.scen = 1 THEN 2 ELSE 0,
   replied |-> o.replied,
   sync |-> NoSync]

ObsRedo(c) ==
  LET o == obs[c] IN
  [pre   |-> IF o.undos > 0 THEN o.pre ELSE <<>>,
   post  |-> IF o.undos > 0 THEN o.post ELSE <<>>,
   undos |-> IF o.undos > 0 THEN o.undos ELSE 0,
   redos |-> IF o.undos > 0 THEN o.redos + 1 ELSE 0,
   cap   |-> 0,
   supp  |-> IF o.supp = 1 THEN 1 ELSE 0,
   op    |-> "performRedo",
   prev  |-> "redo",
   prev2 |-> o.prev,
   scen  |-> IF o.scen = 2 THEN 3 ELSE 0,
   replied |-> o.replied,
   sync |-> NoSync]

\* A step of a move or resize gesture.
ObsGesture(c, op) ==
  [obs[c] EXCEPT !.pre = <<>>, !.post = <<>>, !.undos = 0, !.redos = 0,
                 !.cap = 0, !.op = op, !.prev = "gesture",
                 !.prev2 = obs[c].prev, !.scen = 0, !.sync = NoSync]

\* A message of another sender was handled.
ObsRecv(c, kind) ==
  [pre |-> <<>>, post |-> <<>>, undos |-> 0, redos |-> 0, cap |-> 0,
   supp |-> IF kind = "undo-redo" THEN 1 ELSE obs[c].supp,
   op |-> kind,
   prev |-> IF kind = "undo-redo" THEN "recv-undo-redo" ELSE "recv",
   prev2 |-> obs[c].prev,
   scen |-> 0,
   replied |-> \/ obs[c].replied
               \/ kind = "sync-request"
                  /\ ~(Len(shapes[c]) = 0 /\ Len(history[c]) = 0),
   sync |-> IF kind = "sync-state"
              THEN [n |-> Min(obs[c].sync.n + 1, 2), doc |-> Doc(c)]
              ELSE NoSync]

\* ----------------------------------------------------------------- actions
Init ==
  \* both contexts have just been opened over the same localStorage
  /\ \E stored \in StoredDocs :
       /\ shapes = [c \in Clients |-> stored.shapes]
       /\ history = [c \in Clients |-> stored.history]
  /\ undoStack = [c \in Clients |-> <<>>]
  /\ redoStack = [c \in Clients |-> <<>>]
  /\ isUndoRedo = [c \in Clients |-> FALSE]
  /\ nid = [c \in Clients |-> 0]
  \* the peer opened its channel last: its sync-request is on its way
  /\ chan = [s \in Clients |-> [r \in Clients |->
               IF s = PeerClient /\ r = SoloClient
                 THEN <<[kind |-> "sync-request", senderId |-> s]>>
                 ELSE <<>>]]
  \* the third context has not been opened
  /\ open = Pair
  /\ hasBroadcastChannel = TRUE
  /\ life = [c \in Clients |-> IF c \in Pair THEN "running" ELSE "new"]
  /\ draggingShape = [c \in Clients |-> NoRef]
  /\ resizingShape = [c \in Clients |-> NoRef]
  /\ grab = [c \in Clients |-> {}]
  /\ ops = 0
  /\ detours = 0
  /\ ev = [c |-> "none", op |-> "init", arg |-> <<>>]
  /\ obs = [c \in Clients |-> ObsInit]

\* The handler of context c ended in state s: React commits the state.
Commit(c, s) ==
  /\ shapes' = [shapes EXCEPT ![c] = s.shapes]
  /\ history' = [history EXCEPT ![c] = s.history]
  /\ undoStack' = [undoStack EXCEPT ![c] = s.undoStack]
  /\ redoStack' = [redoStack EXCEPT ![c] = s.redoStack]
  /\ isUndoRedo' = [isUndoRedo EXCEPT ![c] = s.isUndoRedo]
  /\ nid' = [nid EXCEPT ![c] = s.nid]
  /\ draggingShape' = [draggingShape EXCEPT ![c] = s.draggingShape]
  /\ resizingShape' = [resizingShape EXCEPT ![c] = s.resizingShape]
  /\ open' = open
  /\ UNCHANGED <<hasBroadcastChannel, life>>

\* channelRef.current?.postMessage: every message the handler posted is on
\* its way to every other context that has opened the channel, when c holds
\* a channel itself.
Post(c, s, base) ==
  [base EXCEPT ![c] = [r \in Clients |->
     IF r = c \/ r \notin open \/ c \notin open
       THEN base[c][r] ELSE base[c][r] \o s.out]]

\* A local operation of c that ended in state s.
Local(c, s, op, arg, changed) ==
  /\ life[c] = "running"
  /\ Commit(c, s)
  /\ chan' = Post(c, s, chan)
  /\ ops' = ops + 1
  /\ ev' = [c |-> c, op |-> op, arg |-> arg]
  /\ obs' = [obs EXCEPT ![c] =
       IF op = "performUndo" THEN ObsUndo(c)
       ELSE IF op = "performRedo" THEN ObsRedo(c)
       ELSE IF changed THEN ObsMutation(c, s, op)
       ELSE ObsNoop(c, op)]
  /\ grab' = grab

\* The channel handed payload to c.
Received(c, payload, base) ==
  LET after == handleMessage(Ctx(c), payload)
  IN /\ c \in open /\ life[c] = "running"
     /\ Commit(c, after)
     /\ chan' = Post(c, after, base)
     /\ ev' = IF payload.senderId = c
                THEN [c |-> c, op |-> "echo", arg |-> <<>>]
                ELSE [c |-> c, op |-> "message", arg |-> payload.kind,
                      msg |-> payload]
     /\ obs' = [obs EXCEPT ![c] =
          IF payload.senderId = c THEN obs[c] ELSE ObsRecv(c, payload.kind)]
     /\ grab' = grab

CommitPath(c, limit) ==
  /\ ops < limit
  /\ \E points \in PathInputs :
       Local(c, commitPath(Ctx(c), points), "commitPath", points,
             Len(points) >= 2)
  /\ UNCHANGED detours

AddText(c, limit) ==
  /\ ops < limit
  /\ \E text \in TextInputs :
       Local(c, addText(Ctx(c), text), "addText", text, TRUE)
  /\ UNCHANGED detours

EditText(c, limit) ==
  /\ ops < limit
  /\ \E i \in 1..Len(shapes[c]), text \in TextInputs :
       /\ shapes[c][i].type = "text"
       /\ Local(c, editText(Ctx(c), shapes[c][i].id, text), "editText",
                <<shapes[c][i].id, text>>, TRUE)
  /\ UNCHANGED detours

EraseShape(c, limit) ==
  /\ ops < limit
  /\ \E i \in 1..Len(shapes[c]) :
       Local(c, eraseShape(Ctx(c), shapes[c][i]), "deleteShape",
             shapes[c][i].id, TRUE)
  /\ UNCHANGED detours

ClearBoard(c, limit) ==
  /\ ops < limit
  /\ Local(c, clearBoard(Ctx(c)), "clearBoard", <<>>, Len(shapes[c]) > 0)
  /\ UNCHANGED detours

PerformUndo(c, limit) ==
  /\ ops < limit
  /\ Local(c, performUndo(Ctx(c)), "performUndo", <<>>, FALSE)
  /\ UNCHANGED detours

PerformRedo(c, limit) ==
  /\ ops < limit
  /\ Local(c, performRedo(Ctx(c)), "performRedo", <<>>, FALSE)
  /\ UNCHANGED detours

\* The channel hands c the oldest message of sender s it has not handled.
Deliver(c) ==
  \E s \in Clients \ {c} :
    /\ Len(chan[s][c]) > 0
    /\ Received(c, Head(chan[s][c]), [chan EXCEPT ![s][c] = Tail(chan[s][c])])
    /\ UNCHANGED <<ops, detours>>

\* ------------------------------------------------- two contexts, few steps
Next ==
  \E c \in Clients :
    \/ CommitPath(c, MaxOps)
    \/ AddText(c, MaxOps)
    \/ EditText(c, MaxOps)
    \/ EraseShape(c, MaxOps)
    \/ ClearBoard(c, MaxOps)
    \/ PerformUndo(c, MaxOps)
    \/ PerformRedo(c, MaxOps)
    \/ Deliver(c)

Spec == Init /\ [][Next]_vars

\* --------------------------------------------------- one context, alone
NextSolo ==
  \/ CommitPath(SoloClient, MaxSoloOps)
  \/ AddText(SoloClient, MaxSoloOps)
  \/ EditText(SoloClient, MaxSoloOps)
  \/ EraseShape(SoloClient, MaxSoloOps)
  \/ ClearBoard(SoloClient, MaxSoloOps)
  \/ PerformUndo(SoloClient, MaxSoloOps)
  \/ PerformRedo(SoloClient, MaxSoloOps)

SpecSolo == Init /\ [][NextSolo]_vars

\* ------------------------------------------- one context and its channel
\* The documents a peer that drew one stroke can hold.
PeerShape ==
  [id |-> <<PeerClient, 1>>, type |-> "path", points |-> <<1, 2, 3>>,
   createdBy |-> PeerClient]

PeerEntry(n, text, arg) ==
  [id |-> <<PeerClient, n>>, user |-> PeerClient,
   description |-> Description(PeerClient, text, arg)]

EmptyDoc == [shapes |-> <<>>, history |-> <<>>]

PeerDoc ==
  [shapes |-> <<PeerShape>>, history |-> <<PeerEntry(2, "drew a stroke", "3")>>]

\* The document of a peer that drew a stroke and cleared the board.
ClearedDoc ==
  [shapes |-> <<>>,
   history |-> <<PeerEntry(3, "cleared the board", ""),
                 PeerEntry(2, "drew a stroke", "3")>>]

\* The messages of sender `from` the channel may hand to context c.
MessagesFrom(from, c) ==
  { [kind |-> "sync-request", senderId |-> from],
    [kind |-> "add-shape", shape |-> PeerShape,
     history |-> PeerEntry(2, "drew a stroke", "3"), senderId |-> from],
    [kind |-> "clear-board",
     history |-> PeerEntry(3, "cleared the board", ""), senderId |-> from] }
  \cup { [kind |-> "sync-state", shapes |-> d.shapes, history |-> d.history,
          senderId |-> from] : d \in {PeerDoc, ClearedDoc} }
  \cup { [kind |-> "undo-redo", shapes |-> d.shapes, history |-> d.history,
          senderId |-> from] : d \in {EmptyDoc, PeerDoc} }
  \cup { [kind |-> "delete-shape", shapeId |-> shapes[c][i].id,
          history |-> PeerEntry(3, "erased a stroke", ""), senderId |-> from] :
           i \in 1..Len(shapes[c]) }
  \cup { [kind |-> "update-shape",
          shape |-> [shapes[c][i] EXCEPT !.createdBy = from],
          history |-> PeerEntry(3, "moved a stroke", ""), senderId |-> from] :
           i \in 1..Len(shapes[c]) }

\* The channel hands c a message of its peer.
Inject(c) ==
  /\ ops < MaxRecvOps
  /\ \E payload \in MessagesFrom(PeerClient, c) : Received(c, payload, chan)
  /\ ops' = ops + 1
  /\ UNCHANGED detours

\* The channel hands c a message that bears c's own clientId.
Echo(c) ==
  /\ ops < MaxRecvOps
  /\ \E payload \in MessagesFrom(c, c) : Received(c, payload, chan)
  /\ ops' = ops + 1
  /\ UNCHANGED detours

NextRecv ==
  \/ CommitPath(SoloClient, MaxRecvOps)
  \/ AddText(SoloClient, MaxRecvOps)
  \/ EditText(SoloClient, MaxRecvOps)
  \/ EraseShape(SoloClient, MaxRecvOps)
  \/ ClearBoard(SoloClient, MaxRecvOps)
  \/ PerformUndo(SoloClient, MaxRecvOps)
  \/ PerformRedo(SoloClient, MaxRecvOps)
  \/ Inject(SoloClient)
  \/ Echo(SoloClient)

SpecRecv == Init /\ [][NextRecv]_vars

\* ------------------------------------------------ one long chain of edits
\* One context edits on and on: it draws a stroke on an empty board, adds
\* a text to a board of one shape and clears a board of two; once the undo
\* stack is about full it may also undo (ChainDetours times) and redo.
ChainCommitPath ==
  /\ Len(shapes[SoloClient]) = 0
  /\ CommitPath(SoloClient, ChainOps)

ChainAddText ==
  /\ Len(shapes[SoloClient]) = 1
  /\ AddText(SoloClient, ChainOps)

ChainClearBoard ==
  /\ Len(shapes[SoloClient]) >= 2
  /\ ClearBoard(SoloClient, ChainOps)

ChainUndo ==
  /\ ops < ChainOps
  /\ detours < ChainDetours
  /\ Len(undoStack[SoloClient]) >= UNDO_CAP - 1
  /\ Local(SoloClient, performUndo(Ctx(SoloClient)), "performUndo", <<>>, FALSE)
  /\ detours' = detours + 1

ChainRedo ==
  /\ Len(redoStack[SoloClient]) > 0
  /\ PerformRedo(SoloClient, ChainOps)

NextChain ==
  \/ ChainCommitPath
  \/ ChainAddText
  \/ ChainClearBoard
  \/ ChainUndo
  \/ ChainRedo

SpecChain == Init /\ [][NextChain]_vars

\* --------------------------------------------------- one long activity log
\* One context handles the messages of a peer that draws two strokes and
\* clears the board, again and again; once its history is about full it
\* also adds texts and clears the board itself.
\* The n-th message of that peer.
LogPeerMessage(n) ==
  IF Len(shapes[SoloClient]) < 2
    THEN [kind |-> "add-shape",
          shape |-> [PeerShape EXCEPT !.id = <<PeerClient, 2 * n + 1>>],
          history |-> PeerEntry(2 * n + 2, "drew a stroke", "3"),
          senderId |-> PeerClient]
    ELSE [kind |-> "clear-board",
          history |-> PeerEntry(2 * n + 1, "cleared the board", ""),
          senderId |-> PeerClient]

LogDeliver ==
  /\ ops < MaxLogOps
  /\ Received(SoloClient, LogPeerMessage(ops), chan)
  /\ ops' = ops + 1
  /\ UNCHANGED detours

LogAddText ==
  /\ Len(history[SoloClient]) >= HISTORY_CAP - 1
  /\ AddText(SoloClient, MaxLogOps)

LogClearBoard ==
  /\ Len(history[SoloClient]) >= HISTORY_CAP - 1
  /\ ClearBoard(SoloClient, MaxLogOps)

NextLog ==
  \/ LogDeliver
  \/ LogAddText
  \/ LogClearBoard

SpecLog == Init /\ [][NextLog]_vars

\* ------------------------------------------- one context and a peer's tables
\* The rows a grid that arrives from outside may have: legacy string cells,
\* holes, objects with and without their fields, too few and too many cells.
RowInputs ==
  { <<[str |-> <<"a">>], [none |-> TRUE], [value |-> <<"b">>, color |-> "#f43f5e"]>>,
    <<[str |-> <<>>]>>,
    <<[color |-> "#f43f5e"], [value |-> <<"c">>]>>,
    <<[value |-> <<"b">>, color |-> "#f43f5e"], [str |-> <<"a">>]>> }

RECURSIVE GridsOfLen(_)
GridsOfLen(n) ==
  IF n = 0 THEN {<<>>}
  ELSE {Append(g, r) : g \in GridsOfLen(n - 1), r \in RowInputs}

GridInputs == UNION {GridsOfLen(n) : n \in 0..MaxGridLen}

TableDims == {<<2, 2>>, <<1, 3>>}

\* The table shapes a peer may send: with a grid of GridInputs or none.
TableInputs ==
  LET Base(d) == [id |-> <<PeerClient, 1>>, type |-> "table",
                  createdBy |-> PeerClient, x |-> 0, rows |-> d[1],
                  cols |-> d[2], cellWidth |-> DEFAULT_CELL_WIDTH]
      WithGrid(d, g) == [f \in DOMAIN Base(d) \cup {"cells"} |->
                           IF f = "cells" THEN g ELSE Base(d)[f]]
  IN {Base(d) : d \in TableDims}
       \cup {WithGrid(d, g) : d \in TableDims, g \in GridInputs}

HasTable(c) == \E i \in 1..Len(shapes[c]) : shapes[c][i].type = "table"

\* The channel hands c the add-shape message of a peer's table.
TableAdd(c) ==
  /\ ops < MaxTableOps
  /\ ~HasTable(c)
  /\ \E table \in TableInputs :
       Received(c, [kind |-> "add-shape", shape |-> table,
                    history |-> PeerEntry(2, "created a table", ""),
                    senderId |-> PeerClient], chan)
  /\ ops' = ops + 1
  /\ UNCHANGED detours

\* The channel hands c the sync-state message of a peer that holds a table.
TableSync(c) ==
  /\ ops < MaxTableOps
  /\ \E table \in TableInputs :
       Received(c, [kind |-> "sync-state", shapes |-> <<table>>,
                    history |-> <<PeerEntry(2, "created a table", "")>>,
                    senderId |-> PeerClient], chan)
  /\ ops' = ops + 1
  /\ UNCHANGED detours

NextTable ==
  \/ TableAdd(SoloClient)
  \/ TableSync(SoloClient)

SpecTable == Init /\ [][NextTable]_vars

\* ------------------------------------- a context that starts, with or without
\* the broadcast primitive
\* The component of SoloClient has not been mounted; where the environment
\* defines BroadcastChannel the peer runs and listens.
InitBare ==
  /\ \E stored \in StoredDocs :
       /\ shapes = [c \in Clients |-> stored.shapes]
       /\ history = [c \in Clients |-> stored.history]
  /\ undoStack = [c \in Clients |-> <<>>]
  /\ redoStack = [c \in Clients |-> <<>>]
  /\ isUndoRedo = [c \in Clients |-> FALSE]
  /\ nid = [c \in Clients |-> 0]
  /\ chan = [s \in Clients |-> [r \in Clients |-> <<>>]]
  /\ hasBroadcastChannel \in BOOLEAN
  /\ open = IF hasBroadcastChannel THEN {PeerClient} ELSE {}
  /\ life = [c \in Clients |->
               IF c = PeerClient /\ hasBroadcastChannel THEN "running" ELSE "new"]
  /\ draggingShape = [c \in Clients |-> NoRef]
  /\ resizingShape = [c \in Clients |-> NoRef]
  /\ grab = [c \in Clients |-> {}]
  /\ ops = 0
  /\ detours = 0
  /\ ev = [c |-> "none", op |-> "init", arg |-> <<>>]
  /\ obs = [c \in Clients |-> ObsInit]

\* The component of c is mounted and its effects run; the channel effect
\* calls new BroadcastChannel(...), which throws a ReferenceError where the
\* environment does not define it, and React takes down a component whose
\* effect threw. Otherwise the channel is open and the sync-request posted.
Start(c) ==
  /\ life[c] = "new"
  /\ IF hasBroadcastChannel
       THEN /\ life' = [life EXCEPT ![c] = "running"]
            /\ open' = open \cup {c}
            /\ chan' = [chan EXCEPT ![c] = [r \in Clients |->
                          IF r \in open \ {c}
                            THEN chan[c][r] \o <<[kind |-> "sync-request",
                                                  senderId |-> c]>>
                            ELSE chan[c][r]]]
       ELSE /\ life' = [life EXCEPT ![c] = "failed"]
            /\ open' = open
            /\ chan' = chan
  /\ ev' = [c |-> c, op |-> "start", arg |-> <<>>]
  /\ UNCHANGED <<shapes, history, undoStack, redoStack, isUndoRedo, nid,
                 hasBroadcastChannel, draggingShape, resizingShape, ops,
                 detours, obs, grab>>

NextBare ==
  \/ Start(SoloClient)
  \/ CommitPath(SoloClient, MaxBareOps)
  \/ AddText(SoloClient, MaxBareOps)
  \/ EditText(SoloClient, MaxBareOps)
  \/ EraseShape(SoloClient, MaxBareOps)
  \/ ClearBoard(SoloClient, MaxBareOps)
  \/ PerformUndo(SoloClient, MaxBareOps)
  \/ PerformRedo(SoloClient, MaxBareOps)

SpecBare == InitBare /\ [][NextBare]_vars

\* --------------------------- the variant with removable log entries: a writer
\* and a peer
\* A local operation of the variant's component of c that ended in state s.
TsxLocal(c, s, op, arg) ==
  /\ life[c] = "running"
  /\ Commit(c, s)
  /\ chan' = Post(c, s, chan)
  /\ ops' = ops + 1
  /\ ev' = [c |-> c, op |-> op, arg |-> arg]
  /\ UNCHANGED <<detours, obs, grab>>

LinkedCommitPath(c) ==
  /\ ops < MaxLinkedOps
  /\ \E points \in PathInputs :
       TsxLocal(c, TsxCommitPath(Ctx(c), points), "commitPath", points)

LinkedClearBoard(c) ==
  /\ ops < MaxLinkedOps
  /\ TsxLocal(c, TsxClearBoard(Ctx(c)), "clearBoard", <<>>)

\* The user removes an entry of the log shown.
LinkedRemoveHistoryItem(c) ==
  /\ ops < MaxLinkedOps
  /\ \E i \in 1..Len(history[c]) :
       TsxLocal(c, TsxRemoveHistoryItem(Ctx(c), history[c][i].id),
                "removeHistoryItem", history[c][i].id)

\* The channel hands c the oldest message of sender s it has not handled.
LinkedDeliver(c) ==
  \E s \in Clients \ {c} :
    /\ Len(chan[s][c]) > 0
    /\ c \in open /\ life[c] = "running"
    /\ LET payload == Head(chan[s][c])
           after == TsxHandleMessage(Ctx(c), payload)
       IN /\ Commit(c, after)
          /\ chan' = Post(c, after, [chan EXCEPT ![s][c] = Tail(chan[s][c])])
          /\ ev' = [c |-> c, op |-> "message", arg |-> payload.kind,
                    msg |-> payload]
    /\ UNCHANGED <<ops, detours, obs, grab>>

NextLinked ==
  \/ LinkedCommitPath(SoloClient)
  \/ LinkedClearBoard(SoloClient)
  \/ LinkedRemoveHistoryItem(SoloClient)
  \/ \E c \in Clients : LinkedDeliver(c)

SpecLinked == Init /\ [][NextLinked]_vars

\* ----------------------------------------------- one context and its strokes
\* The point sequences a pen gesture of 0 to 3 pointer events may leave.
StrokeInputs == {<<>>, <<1>>, <<1, 2>>, <<1, 2, 3>>}

CommitStroke(c, limit) ==
  /\ ops < limit
  /\ \E points \in StrokeInputs :
       Local(c, commitPath(Ctx(c), points), "commitPath", points,
             Len(points) >= 2)
  /\ UNCHANGED detours

NextStroke ==
  \/ CommitStroke(SoloClient, MaxStrokeOps)
  \/ EraseShape(SoloClient, MaxStrokeOps)
  \/ PerformUndo(SoloClient, MaxStrokeOps)
  \/ PerformRedo(SoloClient, MaxStrokeOps)

SpecStroke == Init /\ [][NextStroke]_vars

\* ------------------------------------------------ one context and its tables
\* The numbers of rows and columns the table editor may hold.
TableEditorInputs == {<<2, 1>>, <<0, 13>>}

\* What a cell editor may hold when it is closed.
CellValueInputs == {<<>>, <<"a">>, <<" ", "a">>, <<"&">>}

\* The pen colours the user may have chosen.
PenColors == {DEFAULT_PEN_COLOR, DEFAULT_CELL_COLOR}

CreateTable(c, limit) ==
  /\ ops < limit
  /\ \E d \in TableEditorInputs :
       Local(c, createTable(Ctx(c), d[1], d[2]), "createTable", d, TRUE)
  /\ UNCHANGED detours

\* The user closes the editor of a cell of a table on the board.
FinalizeCellEditor(c, limit) ==
  /\ ops < limit
  /\ \E i \in 1..Len(shapes[c]) :
       /\ shapes[c][i].type = "table"
       /\ \E row \in 0..Min(shapes[c][i].rows, 2) - 1,
             col \in 0..Min(shapes[c][i].cols, 2) - 1,
             value \in CellValueInputs, color \in PenColors :
            LET after == finalizeCellEditor(Ctx(c), shapes[c][i].id, row, col,
                                            value, color)
            IN Local(c, after, "finalizeCellEditor",
                     <<shapes[c][i].id, row, col, value, color>>,
                     Len(after.out) > 0)
  /\ UNCHANGED detours

NextCell ==
  \/ CreateTable(SoloClient, MaxCellOps)
  \/ FinalizeCellEditor(SoloClient, MaxCellOps)
  \/ EraseShape(SoloClient, MaxCellOps)
  \/ PerformUndo(SoloClient, MaxCellOps)

SpecCell == Init /\ [][NextCell]_vars

\* --------------------------------------------- one context and its gestures
\* Where the pointer may be.
PointerInputs == {0, 5}

\* nextWidth / baseWidth of a position of the pointer during a resize.
ResizeScales == {1, 2}

\* A step of a gesture of c that ended in state s; g: the gestures in
\* progress that began with a pointer-down that pushed a frame.
GestureStep(c, s, op, arg, g) ==
  /\ life[c] = "running"
  /\ Commit(c, s)
  /\ chan' = Post(c, s, chan)
  /\ ops' = ops + 1
  /\ ev' = [c |-> c, op |-> op, arg |-> arg]
  /\ obs' = [obs EXCEPT ![c] = ObsGesture(c, op)]
  /\ grab' = [grab EXCEPT ![c] = g]
  /\ UNCHANGED detours

\* The gestures in progress after a pointer-down of kind `kind` that was not
\* ignored: the new one counts when its saveStateForUndo pushed a frame.
GrabAfterDown(c, s, kind) ==
  IF s.undoStack # undoStack[c] THEN grab[c] \cup {kind} ELSE grab[c] \ {kind}

ShapePointerDown(c, limit) ==
  /\ ops < limit
  /\ \E i \in 1..Len(shapes[c]), x \in PointerInputs :
       LET after == handleShapePointerDown(Ctx(c), shapes[c][i], x)
       IN GestureStep(c, after, "handleShapePointerDown", shapes[c][i].id,
                      IF IsSet(draggingShape[c]) THEN grab[c]
                      ELSE GrabAfterDown(c, after, "move"))

ResizePointerDown(c, limit) ==
  /\ ops < limit
  /\ \E i \in 1..Len(shapes[c]) :
       LET after == handleResizePointerDown(Ctx(c), shapes[c][i])
       IN GestureStep(c, after, "handleResizePointerDown", shapes[c][i].id,
                      IF IsSet(resizingShape[c]) THEN grab[c]
                      ELSE GrabAfterDown(c, after, "resize"))

\* The pointer moves while a gesture is in progress.
PointerMove(c, limit) ==
  /\ ops < limit
  /\ IsSet(draggingShape[c]) \/ IsSet(resizingShape[c])
  /\ \E x \in PointerInputs, scale \in ResizeScales :
       GestureStep(c, handlePointerMove(Ctx(c), x, scale), "handlePointerMove",
                   <<x, scale>>, grab[c])

\* The pointer is released while a gesture is in progress.
PointerUp(c, limit) ==
  /\ ops < limit
  /\ IsSet(draggingShape[c]) \/ IsSet(resizingShape[c])
  /\ GestureStep(c, handlePointerUp(Ctx(c)), "handlePointerUp",
                 IF IsSet(resizingShape[c]) THEN "resize" ELSE "move",
                 grab[c] \ {IF IsSet(resizingShape[c]) THEN "resize" ELSE "move"})

\* The channel hands c a message of its peer that removes shapes.
PeerRemoves(c, limit) ==
  /\ ops < limit
  /\ \E payload \in MessagesFrom(PeerClient, c) :
       /\ payload.kind \in {"delete-shape", "clear-board"}
       /\ Received(c, payload, chan)
  /\ ops' = ops + 1
  /\ UNCHANGED detours

NextGesture ==
  \/ CommitPath(SoloClient, MaxGestureOps)
  \/ AddText(SoloClient, MaxGestureOps)
  \/ CreateTable(SoloClient, MaxGestureOps)
  \/ ShapePointerDown(SoloClient, MaxGestureOps)
  \/ ResizePointerDown(SoloClient, MaxGestureOps)
  \/ PointerMove(SoloClient, MaxGestureOps)
  \/ PointerUp(SoloClient, MaxGestureOps)
  \/ PerformUndo(SoloClient, MaxGestureOps)
  \/ PeerRemoves(SoloClient, MaxGestureOps)

SpecGesture == Init /\ [][NextGesture]_vars

\* ------------------------------------------ one writer and a peer that listens
\* SoloClient performs the local operations, the pointer events of its move
\* and resize gestures among them; PeerClient only handles what the channel
\* hands it, in send order. SoloClient handles the sync-request of the peer.
\* handlePointerUp commits the stroke of the pen: the branches of a resize
\* and of a move in progress return before it.
DrawStroke(c, limit) ==
  /\ ~IsSet(resizingShape[c])
  /\ ~IsSet(draggingShape[c])
  /\ CommitPath(c, limit)

NextWriter ==
  \/ DrawStroke(SoloClient, MaxWriterOps)
  \/ AddText(SoloClient, MaxWriterOps)
  \/ EditText(SoloClient, MaxWriterOps)
  \/ EraseShape(SoloClient, MaxWriterOps)
  \/ ClearBoard(SoloClient, MaxWriterOps)
  \/ PerformUndo(SoloClient, MaxWriterOps)
  \/ PerformRedo(SoloClient, MaxWriterOps)
  \/ ShapePointerDown(SoloClient, MaxWriterOps)
  \/ ResizePointerDown(SoloClient, MaxWriterOps)
  \/ PointerMove(SoloClient, MaxWriterOps)
  \/ PointerUp(SoloClient, MaxWriterOps)
  \/ Deliver(SoloClient)
  \/ Deliver(PeerClient)

SpecWriter == Init /\ [][NextWriter]_vars

\* ------------------------------------------- a context that joins its peer
\* The peer runs and listens; SoloClient is opened, posts its sync-request
\* and performs local operations, MaxJoinOps in all. The event loop of a
\* context dispatches every message posted to its channel.
NextJoin ==
  \/ Start(SoloClient)
  \/ CommitPath(SoloClient, MaxJoinOps)
  \/ EditText(SoloClient, MaxJoinOps)
  \/ EraseShape(SoloClient, MaxJoinOps)
  \/ ClearBoard(SoloClient, MaxJoinOps)
  \/ PerformUndo(SoloClient, MaxJoinOps)
  \/ PerformRedo(SoloClient, MaxJoinOps)
  \/ CommitPath(PeerClient, MaxJoinOps)
  \/ \E c \in Pair : Deliver(c)

SpecJoinFair ==
  InitBare /\ [][NextJoin]_vars /\ \A c \in Pair : WF_vars(Deliver(c))

\* ------------------------------ a context that updates and a peer that removes
\* SoloClient adds, edits and moves shapes while PeerClient erases shapes
\* and clears the board; the channel hands over the messages of each in the
\* order sent, in any order across the two.
NextUpdate ==
  \/ AddText(SoloClient, MaxUpdateOps)
  \/ EditText(SoloClient, MaxUpdateOps)
  \/ ShapePointerDown(SoloClient, MaxUpdateOps)
  \/ PointerMove(SoloClient, MaxUpdateOps)
  \/ PointerUp(SoloClient, MaxUpdateOps)
  \/ EraseShape(PeerClient, MaxUpdateOps)
  \/ ClearBoard(PeerClient, MaxUpdateOps)
  \/ \E c \in Pair : Deliver(c)

SpecUpdate == Init /\ [][NextUpdate]_vars

\* ------------------------------------------------- three contexts, few steps
\* The three contexts are open and the last one's sync-request is on its
\* way to the other two; each of them draws, clears and undoes, and the
\* channel hands over the messages of each sender in the order sent.
InitTrio ==
  /\ \E stored \in StoredDocs :
       /\ shapes = [c \in Clients |-> stored.shapes]
       /\ history = [c \in Clients |-> stored.history]
  /\ undoStack = [c \in Clients |-> <<>>]
  /\ redoStack = [c \in Clients |-> <<>>]
  /\ isUndoRedo = [c \in Clients |-> FALSE]
  /\ nid = [c \in Clients |-> 0]
  /\ chan = [s \in Clients |-> [r \in Clients |->
               IF s = LastClient /\ r # LastClient
                 THEN <<[kind |-> "sync-request", senderId |-> s]>>
                 ELSE <<>>]]
  /\ open = Clients
  /\ hasBroadcastChannel = TRUE
  /\ life = [c \in Clients |-> "running"]
  /\ draggingShape = [c \in Clients |-> NoRef]
  /\ resizingShape = [c \in Clients |-> NoRef]
  /\ grab = [c \in Clients |-> {}]
  /\ ops = 0
  /\ detours = 0
  /\ ev = [c |-> "none", op |-> "init", arg |-> <<>>]
  /\ obs = [c \in Clients |-> ObsInit]

NextTrio ==
  \E c \in Clients :
    \/ CommitPath(c, MaxTrioOps)
    \/ ClearBoard(c, MaxTrioOps)
    \/ PerformUndo(c, MaxTrioOps)
    \/ Deliver(c)

SpecTrio == InitTrio /\ [][NextTrio]_vars

\* ================================================================== claims
\* The handler's view of context c is the same before and after the step.
CtxUnchanged(c) ==
  /\ shapes'[c] = shapes[c]
  /\ history'[c] = history[c]
  /\ undoStack'[c] = undoStack[c]
  /\ redoStack'[c] = redoStack[c]
  /\ isUndoRedo'[c] = isUndoRedo[c]

\* The step made c post exactly the messages msgs, to every other context
\* that has opened the channel.
Sent(c, msgs) ==
  \A d \in Clients \ {c} :
    chan'[c][d] = IF d \in open THEN chan[c][d] \o msgs ELSE chan[c][d]

\* The step is a local operation of c that changed its document (and so
\* called saveStateForUndo).
MutationStep(c) ==
  /\ ev'.c = c
  /\ ev'.op \in {"commitPath", "addText", "editText", "deleteShape", "clearBoard",
                "createTable", "finalizeCellEditor"}
  /\ obs'[c].prev = "mutation"

IsUndid(entry) == entry.description.text = UNDID

NotUndid(entry) == ~IsUndid(entry)

\* C1 -- Undo inverse law: after a run of N local mutations (N at most the
\* stack capacity) and then N calls of performUndo, with no other event of
\* the context in between, the shape list is the one before the run and the
\* history is the one before the run apart from 'undid last action' entries.
\* Every suffix of a run of mutations is such a run, so k calls of
\* performUndo after the run must give the document before its k-th last
\* mutation.
C1_UndoInverse ==
  \A c \in Clients :
    LET o == obs[c] IN
    (o.redos = 0 /\ o.undos >= 1 /\ o.undos <= Len(o.pre) /\ o.undos <= UNDO_CAP)
      => LET before == o.pre[Len(o.pre) - o.undos + 1]
         IN /\ shapes[c] = before.shapes
            /\ SelectSeq(history[c], NotUndid) = SelectSeq(before.history, NotUndid)

\* C2 -- Redo inverse law: after N local mutations, N calls of performUndo
\* and N calls of performRedo, with no other event of the context in
\* between, the shape list is the one that held right after the mutations.
C2_RedoInverse ==
  \A c \in Clients :
    LET o == obs[c] IN
    (o.undos >= 1 /\ o.redos = o.undos /\ o.undos <= Len(o.pre))
      => shapes[c] = o.post

\* C3 -- Suppression exactly-once: a local mutation that directly follows
\* the application of a remote undo-redo message grows the undo stack by
\* exactly one frame, which holds the document as it was after the remote
\* change was applied.
C3_SuppressionExactlyOnce ==
  [][\A c \in Clients :
       (obs[c].prev = "recv-undo-redo" /\ MutationStep(c))
         => /\ Len(undoStack'[c]) = Len(undoStack[c]) + 1
            /\ Top(undoStack'[c]) = Doc(c)]_vars

\* C4 -- One-shot guard: after one or more remote undo-redo messages the
\* first call of saveStateForUndo pushes no frame, leaves both stacks as
\* they are and clears the flag; the second call (no undo, redo or
\* undo-redo message in between) pushes a frame holding the live document.
C4_OneShotGuard ==
  [][\A c \in Clients :
       /\ (MutationStep(c) /\ obs[c].supp = 1)
            => /\ undoStack'[c] = undoStack[c]
               /\ redoStack'[c] = redoStack[c]
               /\ isUndoRedo[c] /\ ~isUndoRedo'[c]
       /\ (MutationStep(c) /\ obs[c].supp = 2)
            => /\ Len(undoStack'[c]) = Len(undoStack[c]) + 1
               /\ Top(undoStack'[c]) = Doc(c)
               /\ ~isUndoRedo'[c]]_vars

\* The second call of saveStateForUndo after a remote undo-redo has been
\* made and its frame is on the stack.
C4_Witness ==
  \E c \in Clients : obs[c].supp = 3 /\ Len(undoStack[c]) >= 1

\* C5 -- Self-echo immunity: handling a message whose senderId is the
\* context's own clientId changes neither its shapes, history, stacks nor
\* flag, and posts nothing.
C5_SelfEchoImmunity ==
  [][\A c \in Clients :
       (ev'.c = c /\ ev'.op = "echo") => (CtxUnchanged(c) /\ Sent(c, <<>>))]_vars

\* An own message was handed to a context that holds shapes, an undo frame
\* and a clear flag.
C5_Witness ==
  \E c \in Clients :
    /\ ev.c = c /\ ev.op = "echo"
    /\ Len(shapes[c]) > 0 /\ Len(undoStack[c]) > 0 /\ ~isUndoRedo[c]

\* C6 -- No redo-after-new-edit: whenever the latest event of a context is
\* a local mutation that changed its document, its redo stack is empty.
C6_NoRedoAfterNewEdit ==
  \A c \in Clients : obs[c].prev = "mutation" => redoStack[c] = <<>>

\* C7 -- Bounded undo stack: the undo stack never holds more than 50
\* frames, and after n consecutive captured local mutations its top
\* min(n, 50) frames are the snapshots taken before the latest min(n, 50)
\* of them, oldest first (so after 60 it holds exactly 50 frames, the
\* oldest 10 discarded).
C7_BoundedUndoStack ==
  \A c \in Clients :
    /\ Len(undoStack[c]) <= UNDO_CAP
    /\ LET n == Min(obs[c].cap, UNDO_CAP)
       IN /\ n <= Len(undoStack[c])
          /\ n <= Len(obs[c].pre)
          /\ SliceLast(undoStack[c], n) = SliceLast(obs[c].pre, n)
    /\ obs[c].cap >= UNDO_CAP => Len(undoStack[c]) = UNDO_CAP

\* 60 consecutive captured mutations have been made.
C7_Witness ==
  \E c \in Clients : obs[c].cap >= UNDO_CAP + 10 /\ Len(undoStack[c]) = UNDO_CAP

\* C8 -- clearBoard idempotence: clearBoard on a non-empty board empties
\* the shape list, prepends exactly one history entry, posts exactly one
\* clear-board message carrying that entry and pushes at most one frame;
\* clearBoard on an empty shape list, and so the second of two calls in a
\* row, changes nothing and posts nothing.
C8_ClearBoardIdempotent ==
  [][\A c \in Clients :
       /\ (ev'.c = c /\ ev'.op = "clearBoard" /\ Len(shapes[c]) > 0)
            => /\ shapes'[c] = <<>>
               /\ Len(history'[c]) = Len(history[c]) + 1
               /\ Tail(history'[c]) = history[c]
               /\ Head(history'[c]).description.text = "cleared the board"
               /\ Sent(c, <<[kind |-> "clear-board",
                             history |-> Head(history'[c]), senderId |-> c]>>)
               /\ Len(undoStack'[c]) <= Len(undoStack[c]) + 1
       /\ (ev'.c = c /\ ev'.op = "clearBoard" /\ Len(shapes[c]) = 0)
            => (CtxUnchanged(c) /\ Sent(c, <<>>))
       /\ (ev.c = c /\ ev.op = "clearBoard" /\ ev'.c = c /\ ev'.op = "clearBoard")
            => (CtxUnchanged(c) /\ Sent(c, <<>>))]_vars

\* clearBoard was called twice in a row, the first call on a non-empty
\* board: the second call returned at its guard.
C8_Witness ==
  \E c \in Clients :
    /\ ev.c = c /\ ev.op = "clearBoard"
    /\ obs[c].op = "clearBoard" /\ obs[c].prev = "noop" /\ obs[c].prev2 = "mutation"
    /\ Len(history[c]) > 0
    /\ Head(history[c]).description.text = "cleared the board"
    /\ Head(history[c]).user = c

\* C9 -- Empty-stack no-op: performUndo with an empty undo stack and
\* performRedo with an empty redo stack change nothing of the context (no
\* history entry either) and post nothing.
C9_EmptyStackNoop ==
  [][\A c \in Clients :
       /\ (ev'.c = c /\ ev'.op = "performUndo" /\ Len(undoStack[c]) = 0)
            => (CtxUnchanged(c) /\ Sent(c, <<>>))
       /\ (ev'.c = c /\ ev'.op = "performRedo" /\ Len(redoStack[c]) = 0)
            => (CtxUnchanged(c) /\ Sent(c, <<>>))]_vars

\* performUndo was called on an empty undo stack in a context that holds a
\* shape (its capture was suppressed).
C9_Witness ==
  \E c \in Clients :
    /\ ev.c = c /\ ev.op = "performUndo"
    /\ Len(undoStack[c]) = 0 /\ Len(redoStack[c]) = 0
    /\ Len(shapes[c]) > 0

\* C10 -- Stroke scenario: on a fresh context commitPath with 3 points adds
\* exactly one path shape holding those points, one history entry and posts
\* one add-shape message carrying both; a following performUndo leaves no
\* shape, an 'undid last action' entry at the head of the history and one
\* frame on the redo stack; a following performRedo brings the stroke back
\* with 'redid last action' at the head of the history.
C10_StrokeScenario ==
  [][\A c \in Clients :
       /\ (ev'.c = c /\ ev'.op = "commitPath" /\ Len(ev'.arg) = 3 /\ Fresh(c))
            => /\ Len(shapes'[c]) = 1
               /\ shapes'[c][1].type = "path"
               /\ shapes'[c][1].points = ev'.arg
               /\ Len(history'[c]) = 1
               /\ history'[c][1].description = Description(c, "drew a stroke", "3")
               /\ Sent(c, <<[kind |-> "add-shape", shape |-> shapes'[c][1],
                             history |-> history'[c][1], senderId |-> c]>>)
       /\ (ev'.c = c /\ ev'.op = "performUndo" /\ obs[c].scen = 1)
            => /\ shapes'[c] = <<>>
               /\ IsUndid(Head(history'[c]))
               /\ Len(redoStack'[c]) = 1
       /\ (ev'.c = c /\ ev'.op = "performRedo" /\ obs[c].scen = 2)
            => /\ shapes'[c] = obs[c].post
               /\ Len(shapes'[c]) = 1
               /\ Len(shapes'[c][1].points) = 3
               /\ Head(history'[c]).description.text = REDID]_vars

\* The three steps of the scenario have been taken.
C10_Witness ==
  \E c \in Clients : obs[c].scen = 3

\* C11 -- The undo-redo message posted by performUndo or performRedo
\* carries the sender's full new document: its shapes and history are the
\* sender's live shapes and history once the undo or redo has completed, so
\* a peer that applies it holds the same (shapes, history) pair.
C11_UndoRedoCarriesDocument ==
  [][\A c \in Clients :
       (/\ ev'.c = c
        /\ \/ ev'.op = "performUndo" /\ Len(undoStack[c]) > 0
           \/ ev'.op = "performRedo" /\ Len(redoStack[c]) > 0)
         => \A d \in open \ {c} :
              /\ Len(chan'[c][d]) = Len(chan[c][d]) + 1
              /\ LET m == Top(chan'[c][d]) IN
                 /\ m.kind = "undo-redo"
                 /\ m.shapes = shapes'[c]
                 /\ m.history = history'[c]
                 /\ DocOf(handleMessage(Ctx(d), m))
                      = [shapes |-> shapes'[c], history |-> history'[c]]]_vars

\* The ids of the shapes of a shape list, in order.
IdsOf(list) == [i \in 1..Len(list) |-> list[i].id]

\* C12 -- A context that handles an add-shape, update-shape, delete-shape
\* or clear-board message of another sender applies the change of the shape
\* list and prepends the carried history entry, and does nothing else: it
\* posts nothing, pushes no undo frame and leaves the suppression flag.
C12_RemoteApplyFrame ==
  [][\A c \in Clients :
       (/\ ev'.c = c /\ ev'.op = "message"
        /\ ev'.arg \in {"add-shape", "update-shape", "delete-shape", "clear-board"})
         => LET m == ev'.msg IN
            /\ ev'.arg = "add-shape" =>
                 /\ Len(shapes'[c]) = Len(shapes[c]) + 1
                 /\ SubSeq(shapes'[c], 1, Len(shapes[c])) = shapes[c]
                 /\ Top(shapes'[c]) = normalizeShape(m.shape)
            /\ ev'.arg = "clear-board" => shapes'[c] = <<>>
            /\ ev'.arg = "delete-shape" =>
                 /\ \A i \in 1..Len(shapes'[c]) : shapes'[c][i].id # m.shapeId
                 /\ LET Other(shape) == shape.id # m.shapeId
                    IN shapes'[c] = SelectSeq(shapes[c], Other)
            /\ ev'.arg = "update-shape" =>
                 /\ IdsOf(shapes'[c]) = IdsOf(shapes[c])
                 /\ \A i \in 1..Len(shapes[c]) :
                      IF shapes[c][i].id = m.shape.id
                        THEN shapes'[c][i] = normalizeShape(m.shape)
                        ELSE shapes'[c][i] = shapes[c][i]
            /\ history'[c] = <<m.history>> \o history[c]
            /\ undoStack'[c] = undoStack[c]
            /\ redoStack'[c] = redoStack[c]
            /\ isUndoRedo'[c] = isUndoRedo[c]
            /\ Sent(c, <<>>)]_vars

\* A delete-shape message of the peer removed a shape of a context that has
\* frames on its undo stack.
C12_Witness ==
  \E c \in Clients :
    /\ ev.c = c /\ ev.op = "message" /\ ev.arg = "delete-shape"
    /\ Len(undoStack[c]) > 0
    /\ Len(history[c]) >= 2

\* Every message sent has been handled by every other context.
Quiescent == \A s \in Clients : \A r \in Clients : chan[s][r] = <<>>

\* The set of the shapes a context holds.
ShapeSet(c) == {shapes[c][i] : i \in 1..Len(shapes[c])}

Senders == {c \in open : nid[c] > 0 \/ obs[c].replied}

C14_ShapeIdsUnique ==
  \A c \in Clients :
    \A i \in 1..Len(shapes[c]) : \A j \in 1..Len(shapes[c]) :
      i # j => shapes[c][i].id # shapes[c][j].id

\* C15 -- History bound: in every reachable state the history of every
\* context holds at most 250 entries, whether they were added by local
\* mutations or by received messages.
C15_HistoryBound ==
  \A c \in Clients : Len(history[c]) <= HISTORY_CAP

\* The content of a cell of an input grid: the string of a legacy cell, the
\* value of an object, nothing for a hole.
RawValue(cell) ==
  IF "str" \in DOMAIN cell THEN cell.str
  ELSE IF "value" \in DOMAIN cell THEN cell.value
  ELSE <<>>

\* The table `out` is the complete grid of the input table `in`.
CompleteGridOf(out, in) ==
  LET grid == IF "cells" \in DOMAIN in THEN in.cells ELSE <<>>
  IN /\ Len(out.cells) = in.rows
     /\ \A i \in 1..Len(out.cells) : Len(out.cells[i]) = in.cols
     /\ \A i \in 1..Min(in.rows, Len(grid)) :
          \A j \in 1..Min(in.cols, Len(grid[i])) :
            /\ out.cells[i][j].value = RawValue(grid[i][j])
            /\ "color" \in DOMAIN grid[i][j]
                 => out.cells[i][j].color = grid[i][j].color

\* The table a context keeps of the table message it handled last.
KeptTable(c) ==
  IF ev.arg = "add-shape" THEN shapes[c][Len(shapes[c])] ELSE shapes[c][1]

SentTable == IF ev.arg = "add-shape" THEN ev.msg.shape ELSE ev.msg.shapes[1]

TableHandled ==
  /\ ev.op = "message"
  /\ \/ ev.arg = "add-shape" /\ ev.msg.shape.type = "table"
     \/ ev.arg = "sync-state" /\ Len(ev.msg.shapes) > 0
          /\ ev.msg.shapes[1].type = "table"

\* C16 -- Table grid completeness: whatever grid a table shape with rows = R
\* and cols = C arrives with (none, too short, too long, ragged), the table
\* ensureTableCells makes of it has exactly R rows of exactly C cells each,
\* and every cell inside the R x C range of the input keeps its content.
C16_TableGridComplete ==
  TableHandled => CompleteGridOf(KeptTable(ev.c), SentTable)

\* A grid with too many rows, one of them too long and one too short, and a
\* legacy cell in range, has been made complete.
C16_Witness ==
  /\ TableHandled
  /\ "cells" \in DOMAIN SentTable
  /\ Len(SentTable.cells) > SentTable.rows
  /\ Len(SentTable.cells[1]) > SentTable.cols
  /\ Len(SentTable.cells[2]) < SentTable.cols
  /\ "str" \in DOMAIN SentTable.cells[1][1]
  /\ KeptTable(ev.c).cells[1][1].value = <<"a">>
  /\ KeptTable(ev.c).cells[2][2] = DefaultCell

\* C17 -- A context that handles a sync-state message of another sender
\* replaces its shape list by the normalized shapes of the payload and its
\* history by the history of the payload, whatever document it holds and
\* whatever it handled before (so the sync-state handled last decides); its
\* undo stack, its redo stack and its suppression flag are unchanged.
C17_SyncStateReplaces ==
  [][\A c \in Clients :
       (ev'.c = c /\ ev'.op = "message" /\ ev'.arg = "sync-state")
         => /\ shapes'[c] = normalizeShapes(ev'.msg.shapes)
            /\ history'[c] = ev'.msg.history
            /\ undoStack'[c] = undoStack[c]
            /\ redoStack'[c] = redoStack[c]
            /\ isUndoRedo'[c] = isUndoRedo[c]]_vars

\* A context with a frame on its undo stack handled two sync-state messages
\* in a row; the second replaced a document with shapes, which the first had
\* brought, by a different one.
C17_Witness ==
  \E c \in Clients :
    /\ ev.c = c /\ ev.op = "message" /\ ev.arg = "sync-state"
    /\ obs[c].sync.n = 2
    /\ Len(obs[c].sync.doc.shapes) > 0
    /\ obs[c].sync.doc # Doc(c)
    /\ shapes[c] = normalizeShapes(ev.msg.shapes)
    /\ Len(undoStack[c]) > 0

\* C18 -- Bootstrap reply: a context that handles a sync-request of another
\* sender posts exactly one sync-state message with its current shapes and
\* history when it holds shapes or history, and posts nothing when it holds
\* neither; its own document is the same after the request as before.
C18_BootstrapReply ==
  [][\A c \in Clients :
       (ev'.c = c /\ ev'.op = "message" /\ ev'.arg = "sync-request")
         => /\ shapes'[c] = shapes[c]
            /\ history'[c] = history[c]
            /\ IF Len(shapes[c]) = 0 /\ Len(history[c]) = 0
                 THEN Sent(c, <<>>)
                 ELSE Sent(c, <<[kind |-> "sync-state", shapes |-> shapes[c],
                                 history |-> history[c], senderId |-> c]>>)]_vars

\* A context with an empty board and a history of its own answered a
\* sync-request: the sync-state it posted last carries that document.
C18_Witness ==
  \E c \in Clients :
    /\ ev.c = c /\ ev.op = "message" /\ ev.arg = "sync-request"
    /\ Len(shapes[c]) = 0 /\ Len(history[c]) > 0
    /\ history[c][1].user = c
    /\ \E d \in open \ {c} :
         /\ Len(chan[c][d]) > 0
         /\ Top(chan[c][d]) = [kind |-> "sync-state", shapes |-> shapes[c],
                                history |-> history[c], senderId |-> c]

\* The shape with the given id in a shape list (the first, as find does).
ShapeById(list, id) ==
  LET WithId(shape) == shape.id = id IN SelectSeq(list, WithId)[1]

\* C19 -- Unchanged cell edit: a call of updateTableCell with a value that,
\* once sanitized, equals the content the cell has pushes no undo frame,
\* adds no history entry, posts no update-shape message and leaves the
\* shape list as it is. (finalizeCellEditor calls updateTableCell with the
\* sanitized content of the editor.)
C19_UnchangedCellEdit ==
  [][\A c \in Clients :
       (ev'.c = c /\ ev'.op = "finalizeCellEditor")
         => LET table == ShapeById(shapes[c], ev'.arg[1])
                cell == table.cells[ev'.arg[2] + 1][ev'.arg[3] + 1]
                passed == sanitizeHtmlValue(ev'.arg[4])
            IN sanitizeHtmlValue(passed) = cell.value
                 => (CtxUnchanged(c) /\ Sent(c, <<>>))]_vars

ReplicationKinds == {"add-shape", "update-shape", "delete-shape", "clear-board"}

\* The step made c add exactly one history entry and post exactly one
\* replication message, which carries that entry.
PairedStep(c) ==
  /\ Len(history'[c]) = Len(history[c]) + 1
  /\ Tail(history'[c]) = history[c]
  /\ \A d \in open \ {c} :
       /\ Len(chan'[c][d]) = Len(chan[c][d]) + 1
       /\ Top(chan'[c][d]).kind \in ReplicationKinds
       /\ Top(chan'[c][d]).history = history'[c][1]

\* C20 -- Lockstep of undo and replication: a local operation that pushes
\* an undo frame through saveStateForUndo adds exactly one history entry and
\* posts exactly one replication message (add-shape, update-shape,
\* delete-shape or clear-board). For a move or a resize the frame is pushed
\* at the pointer-down and the entry and the message are due at the
\* pointer-up that ends the gesture.
C20_Lockstep ==
  [][\A c \in Clients :
       /\ (MutationStep(c) /\ undoStack'[c] # undoStack[c]) => PairedStep(c)
       /\ (/\ ev'.c = c /\ ev'.op = "handlePointerUp"
           /\ ev'.arg \in grab[c])
            => PairedStep(c)]_vars

\* C21 -- commitPath with a stroke of fewer than 2 points is a no-op: no
\* shape is added, no history entry is made, no undo frame is pushed and no
\* message is posted; so every shape commitPath adds has at least 2 points.
C21_ShortStrokeNoop ==
  [][\A c \in Clients :
       (ev'.c = c /\ ev'.op = "commitPath")
         => /\ Len(ev'.arg) < 2 => (CtxUnchanged(c) /\ Sent(c, <<>>))
            /\ shapes'[c] # shapes[c]
                 => /\ Len(shapes'[c]) = Len(shapes[c]) + 1
                    /\ Top(shapes'[c]).type = "path"
                    /\ Len(Top(shapes'[c]).points) >= 2]_vars

\* A context with a stroke on the board and frames on both stacks called
\* commitPath with a single point, right after an undo.
C21_Witness ==
  \E c \in Clients :
    /\ ev.c = c /\ ev.op = "commitPath" /\ Len(ev.arg) = 1
    /\ obs[c].prev = "noop" /\ obs[c].prev2 = "undo"
    /\ Len(shapes[c]) > 0
    /\ Len(undoStack[c]) > 0 /\ Len(redoStack[c]) > 0

\* The step is a local operation of c (a mutation, an undo or a redo).
LocalStep(c) ==
  /\ ev'.c = c
  /\ ev'.op \in {"commitPath", "addText", "editText", "deleteShape",
                "clearBoard", "performUndo", "performRedo"}

\* C22 -- Transport unavailable: where the environment has no broadcast
\* primitive a context starts without an error (its component runs), and
\* its local operations post nothing.
C22_TransportUnavailable ==
  [][\A c \in Clients :
       ~hasBroadcastChannel
         => /\ (ev'.c = c /\ ev'.op = "start") => life'[c] = "running"
            /\ LocalStep(c) => chan' = chan]_vars

\* The history and the shape list of c are those of before without the
\* entry historyId and, where that entry of `log` links to a shape, without
\* that shape.
RemovedFrom(c, historyId, linked, shapeId) ==
  /\ history'[c] = WithoutId(history[c], historyId)
  /\ shapes'[c] = IF linked THEN WithoutId(shapes[c], shapeId) ELSE shapes[c]

\* C23 -- Log-entry removal cascade (variant with removable log entries):
\* removeHistoryItem(h) removes the entry h from the history and, when h
\* links to a shape, the shape with that id from the shape list, and posts
\* one remove-history message; a peer that handles the message removes the
\* same entry and the same shape; all other entries and shapes stay; once
\* the peer has handled all the sender sent, the two agree on both lists.
C23_RemovalCascade ==
  [][\A c \in Clients :
       /\ (ev'.c = c /\ ev'.op = "removeHistoryItem")
            => LET item == FindShape(history[c], ev'.arg)
                   linked == "shapeId" \in DOMAIN item
               IN /\ RemovedFrom(c, ev'.arg, linked,
                                 IF linked THEN item.shapeId ELSE <<>>)
                  /\ \E m \in {Top(chan'[c][PeerClient])} :
                       /\ Sent(c, <<m>>)
                       /\ m.kind = "remove-history" /\ m.historyId = ev'.arg
                       /\ ("shapeId" \in DOMAIN m) = linked
                       /\ linked => m.shapeId = item.shapeId
       /\ (ev'.c = c /\ ev'.op = "message" /\ ev'.arg = "remove-history")
            => LET m == ev'.msg
                   linked == "shapeId" \in DOMAIN m
               IN /\ RemovedFrom(c, m.historyId, linked,
                                 IF linked THEN m.shapeId ELSE <<>>)
                  /\ chan'[m.senderId][c] = <<>>
                       => /\ shapes'[c] = shapes'[m.senderId]
                          /\ history'[c] = history'[m.senderId]]_vars

\* The writer drew two strokes and removed the log entry of the first; the
\* peer has handled the three messages and holds the second stroke only.
C23_Witness ==
  /\ ev.c = PeerClient /\ ev.op = "message" /\ ev.arg = "remove-history"
  /\ nid[SoloClient] = 4
  /\ ev.msg.historyId = <<SoloClient, 2>>
  /\ "shapeId" \in DOMAIN ev.msg /\ ev.msg.shapeId = <<SoloClient, 1>>
  /\ \E i \in 1..Len(shapes[PeerClient]) :
       shapes[PeerClient][i].id = <<SoloClient, 3>>
  /\ \A i \in 1..Len(shapes[PeerClient]) :
       shapes[PeerClient][i].id # <<SoloClient, 1>>
  /\ \E i \in 1..Len(history[PeerClient]) :
       history[PeerClient][i].id = <<SoloClient, 4>>

\* The local operations that call saveStateForUndo, performUndo and
\* performRedo.
StackOps ==
  {"commitPath", "addText", "editText", "deleteShape", "clearBoard",
   "createTable", "finalizeCellEditor", "handleShapePointerDown",
   "handleResizePointerDown", "performUndo", "performRedo"}

\* C24 -- Private stacks: handling a message of any kind leaves the undo
\* stack and the redo stack of the receiver as they are; a step that
\* changes a stack of a context is a local mutation (saveStateForUndo), a
\* performUndo or a performRedo of that context.
C24_PrivateStacks ==
  [][\A c \in Clients :
       /\ (ev'.c = c /\ ev'.op \in {"message", "echo"})
            => (undoStack'[c] = undoStack[c] /\ redoStack'[c] = redoStack[c])
       /\ (undoStack'[c] # undoStack[c] \/ redoStack'[c] # redoStack[c])
            => (ev'.c = c /\ ev'.op \in StackOps)]_vars

\* A context with frames on both stacks handled an undo-redo message of its
\* peer that changed its document.
C24_Witness ==
  \E c \in Clients :
    /\ ev.c = c /\ ev.op = "message" /\ ev.arg = "undo-redo"
    /\ Len(undoStack[c]) > 0 /\ Len(redoStack[c]) > 0
    /\ shapes[c] = normalizeShapes(ev.msg.shapes)
    /\ Top(undoStack[c]).shapes # shapes[c]
    /\ isUndoRedo[c]

\* The number of the messages c posted in the step to each open peer.
SentCount(c, n) ==
  \A d \in Clients \ {c} :
    Len(chan'[c][d]) = Len(chan[c][d]) + (IF d \in open THEN n ELSE 0)

\* The pointer-down that begins a gesture pushes at most one frame, which
\* holds the document of that moment, and neither logs nor posts.
GestureDownStep(c) ==
  /\ \/ undoStack'[c] = undoStack[c]
     \/ /\ Len(undoStack'[c]) <= Len(undoStack[c]) + 1
        /\ Top(undoStack'[c]) = Doc(c)
  /\ shapes'[c] = shapes[c]
  /\ history'[c] = history[c]
  /\ Sent(c, <<>>)

\* A pointer move of a gesture pushes no frame, logs nothing, posts nothing.
GestureMoveStep(c) ==
  /\ undoStack'[c] = undoStack[c]
  /\ redoStack'[c] = redoStack[c]
  /\ history'[c] = history[c]
  /\ Sent(c, <<>>)

\* The pointer-up that ends a gesture adds one history entry and posts one
\* update-shape message, and pushes no frame.
GestureUpStep(c) ==
  /\ undoStack'[c] = undoStack[c]
  /\ Len(history'[c]) = Len(history[c]) + 1
  /\ Tail(history'[c]) = history[c]
  /\ SentCount(c, 1)
  /\ \A d \in open \ {c} : Top(chan'[c][d]).kind = "update-shape"

\* C25 -- Gesture undo granularity: a move or resize gesture pushes at most
\* one undo frame, at its pointer-down, holding the document as it was
\* before the gesture; its pointer moves push no frame, add no history entry
\* and post no message; its pointer-up adds exactly one history entry and
\* posts exactly one update-shape message without pushing a further frame.
C25_GestureGranularity ==
  [][\A c \in Clients :
       /\ (/\ ev'.c = c
           /\ ev'.op \in {"handleShapePointerDown", "handleResizePointerDown"})
            => GestureDownStep(c)
       /\ (ev'.c = c /\ ev'.op = "handlePointerMove") => GestureMoveStep(c)
       /\ (ev'.c = c /\ ev'.op = "handlePointerUp") => GestureUpStep(c)]_vars

\* The shape list of a context in state s once it has handled msgs in order.
RECURSIVE ShapesAfter(_, _)
ShapesAfter(s, msgs) ==
  IF Len(msgs) = 0 THEN s.shapes
  ELSE ShapesAfter(handleMessage(s, Head(msgs)), Tail(msgs))

\* Once the peer has handled the messages of the writer that are on their
\* way to it, its shape list is the writer's shape list of this moment.
InStep(writer, peer) ==
  ShapesAfter(Ctx(peer), chan[writer][peer]) = shapes[writer]

\* A move or a resize of c has begun and has not ended.
GestureInProgress(c) == IsSet(draggingShape[c]) \/ IsSet(resizingShape[c])

\* C26 (as stated) -- Single-writer replication: one context performs the
\* local operations and its peer, which started with the same shape list,
\* handles its messages in send order; after every delivery the shape list
\* of the peer is the shape list the writer had right after the operation
\* that posted the message. Stated on the step of the operation: the
\* messages on their way, the new one last, take the peer's shape list to
\* the list the writer holds after the step; so the peer that has handled
\* the k-th message holds the writer's list of right after the k-th
\* operation.
C26_Original ==
  [][(/\ ev'.c = SoloClient
      /\ chan'[SoloClient][PeerClient] # chan[SoloClient][PeerClient])
       => InStep(SoloClient, PeerClient)']_vars

\* C26 -- Single-writer replication, for the operations that leave no move
\* or resize gesture of the writer in progress: after the delivery of the
\* message of such an operation the shape list of the peer is the shape list
\* the writer had right after the operation. (The pointer moves of a gesture
\* change the writer's list and post nothing before the pointer-up.)
C26_SingleWriter ==
  [][(/\ ev'.c = SoloClient
      /\ chan'[SoloClient][PeerClient] # chan[SoloClient][PeerClient]
      /\ ~GestureInProgress(SoloClient)')
       => InStep(SoloClient, PeerClient)']_vars

\* The peer has handled the update-shape of a move that took the stored
\* text to another place, and holds the writer's shape list.
C26_Witness ==
  /\ ev.c = PeerClient /\ ev.op = "message" /\ ev.arg = "update-shape"
  /\ chan[SoloClient][PeerClient] = <<>>
  /\ ~GestureInProgress(SoloClient)
  /\ Len(undoStack[SoloClient]) > 0
  /\ Len(shapes[SoloClient]) > 0
  /\ shapes[SoloClient] # <<StoredShape>>
  /\ shapes[PeerClient] = shapes[SoloClient]

\* C27 -- Combined stack bound: in every reachable state of a context the
\* frames on its undo stack and the frames on its redo stack are at most 50
\* together, although performUndo and performRedo push without a cap; so
\* the redo stack holds at most 50 frames as well.
C27_CombinedStackBound ==
  \A c \in Clients :
    /\ Len(undoStack[c]) + Len(redoStack[c]) <= UNDO_CAP
    /\ Len(redoStack[c]) <= UNDO_CAP

\* performRedo pushed the 50th frame onto the undo stack of a context that
\* had pushed more than 50 frames, undone one and so held 49 and 1.
C27_Witness ==
  \E c \in Clients :
    /\ ev.c = c /\ ev.op = "performRedo"
    /\ obs[c].prev2 = "undo"
    /\ Len(undoStack[c]) = UNDO_CAP
    /\ Len(redoStack[c]) = 0

\* C28 -- Quiescence of the protocol: handling a received message posts a
\* message only when the message is a sync-request, and then one sync-state
\* to each open peer; handling add-shape, update-shape, delete-shape,
\* clear-board, sync-state or undo-redo posts nothing. So with finitely many
\* local operations and joins the system reaches a state with no message in
\* flight and stays there.
C28_Quiescence ==
  /\ [][\A c \in Clients :
          (ev'.c = c /\ ev'.op \in {"message", "echo"})
            => \/ Sent(c, <<>>)
               \/ /\ ev'.op = "message" /\ ev'.arg = "sync-request"
                  /\ \E reply \in {Top(chan'[c][ev'.msg.senderId])} :
                       /\ reply.kind = "sync-state"
                       /\ Sent(c, <<reply>>)]_vars
  /\ <>[]Quiescent

\* All operations are made, the context that joined has handled the
\* sync-state that answered its sync-request, and no message is in flight.
C28_Witness ==
  /\ Quiescent
  /\ ops = MaxJoinOps
  /\ life[SoloClient] = "running"
  /\ ev.c = SoloClient /\ ev.op = "message" /\ ev.arg = "sync-state"
  /\ Len(shapes[SoloClient]) > 0

\* C29 -- Undo overrides remote edits: performUndo makes the shape list of
\* the popped frame the live shape list, whatever the context applied from
\* messages since the frame was captured, and posts that list in one
\* undo-redo message; a peer that handles the message holds exactly that
\* list afterwards, whatever it held before, shapes of its own included.
C29_UndoOverridesRemote ==
  [][\A c \in Clients :
       /\ (ev'.c = c /\ ev'.op = "performUndo" /\ Len(undoStack[c]) > 0)
            => /\ shapes'[c] = Top(undoStack[c]).shapes
               /\ \A d \in open \ {c} :
                    /\ Len(chan'[c][d]) = Len(chan[c][d]) + 1
                    /\ Top(chan'[c][d]).kind = "undo-redo"
                    /\ Top(chan'[c][d]).shapes = Top(undoStack[c]).shapes
       /\ (ev'.c = c /\ ev'.op = "message" /\ ev'.arg = "undo-redo")
            => shapes'[c] = ev'.msg.shapes]_vars

\* A context that drew a stroke of its own has handled the undo-redo of a
\* peer whose frame is older than the stroke: it holds the list of the
\* message and its own stroke is gone.
C29_Witness ==
  \E c \in Clients :
    /\ ev.c = c /\ ev.op = "message" /\ ev.arg = "undo-redo"
    /\ obs[c].prev2 = "mutation"
    /\ nid[c] > 0
    /\ shapes[c] = ev.msg.shapes
    /\ \A i \in 1..Len(shapes[c]) : shapes[c][i].id[1] # c
    /\ \E d \in Clients \ {c} :
         /\ ev.msg.senderId = d
         /\ Len(redoStack[d]) > 0
         /\ \E i \in 1..Len(Top(redoStack[d]).shapes) :
              Top(redoStack[d]).shapes[i].id[1] = c

\* The step left the shapes of c in their places: the same number of shapes
\* with the same ids in the same order.
SamePlaces(c) ==
  /\ Len(shapes'[c]) = Len(shapes[c])
  /\ \A i \in 1..Len(shapes[c]) : shapes'[c][i].id = shapes[c][i].id

HoldsId(list, id) == \E i \in 1..Len(list) : list[i].id = id

\* A shape no context holds.
AbsentShape == [StoredShape EXCEPT !.id = <<"stored", 0>>]

\* C30 -- Update never creates a shape: an update-shape, applied by
\* applyShapeUpdate or from a received message, changes neither the length
\* nor the order of the shape list; when the list holds no shape of the
\* given id the list stays as it is, the shape is not created, and the
\* history entry is prepended all the same.
C30_UpdateNeverCreates ==
  [][\A c \in Clients :
       /\ (/\ ev'.c = c
           /\ ev'.op \in {"editText", "handlePointerUp", "finalizeCellEditor"})
            => SamePlaces(c)
       /\ (ev'.c = c /\ ev'.op = "message" /\ ev'.arg = "update-shape")
            => /\ SamePlaces(c)
               /\ history'[c] = <<ev'.msg.history>> \o history[c]
               /\ ~HoldsId(shapes[c], ev'.msg.shape.id)
                    => shapes'[c] = shapes[c]
       /\ LET after == applyShapeUpdate(Ctx(c), AbsentShape,
                                        Description(c, "edited text", "t0"),
                                        FALSE)
          IN /\ after.shapes = shapes[c]
             /\ Len(after.history) = Min(Len(history[c]) + 1, HISTORY_CAP)
             /\ after.history[1].description.text = "edited text"]_vars

\* A context that erased a text, or cleared the board, has handled the
\* update-shape of a move or an edit its peer made of that text meanwhile:
\* it holds no such shape, and the entry of the update is first in its log.
C30_Witness ==
  \E c \in Clients :
    /\ ev.c = c /\ ev.op = "message" /\ ev.arg = "update-shape"
    /\ ~HoldsId(shapes[c], ev.msg.shape.id)
    /\ obs[c].prev2 = "mutation"
    /\ Len(history[c]) > 1
    /\ history[c][1] = ev.msg.history
    /\ HoldsId(shapes[ev.msg.senderId], ev.msg.shape.id)

====
